---- MODULE Spec2Model ----
(***************************************************************************)
(* Git Smart HTTP gateway (backend/src/main.rs): the protocol handlers     *)
(* handle_info_refs, handle_upload_pack and handle_receive_pack, the auth  *)
(* gate check_auth they call, and the git helper processes they run.       *)
(*                                                                         *)
(* Byte strings are sequences of one-character strings; decoded bytes are  *)
(* integers 0..255.  Every request is one task (a slot of Reqs); tasks run *)
(* concurrently and interleave at the blocking calls of a handler (spawn,  *)
(* write_all, drop(stdin), wait_with_output).                              *)
(***************************************************************************)
EXTENDS Integers, Sequences, FiniteSets, TLC

\* ------------------------------------------------------------------ bounds

\* Longest request body a client POSTs.
MaxBody == 2
\* Longest standard output a helper produces.
MaxOut == 2

\* ------------------------------------------------------------ fixed values

\* Option<T>: None is the empty sequence, Some(x) the one-element sequence.
None == <<>>
Some(x) == <<x>>
IsSome(o) == Len(o) = 1
Unwrap(o) == o[1]

NoChild == "NoChild"

\* Concurrent request tasks (actix workers).
Reqs == {"q1", "q2"}
\* Process-table slots for helpers alive at the same time.
Pids == {"p1", "p2"}

\* Repository names a client may put into the URL; only ExistingRepos have a
\* directory repositories/<name>.git.
RepoNames == {"r1", "nope"}
ExistingRepos == {"r1"}

GitUploadPack == <<"g","i","t","-","u","p","l","o","a","d","-","p","a","c","k">>
GitReceivePack == <<"g","i","t","-","r","e","c","e","i","v","e","-","p","a","c","k">>
ServicePrefix == <<"s","e","r","v","i","c","e","=">>
ServiceHeaderPrefix == <<"#"," ","s","e","r","v","i","c","e","=">>
FlushPkt == <<"0","0","0","0">>

\* Query strings a client may send to info/refs.
Queries ==
    { ServicePrefix \o GitUploadPack,
      ServicePrefix \o GitReceivePack,
      ServicePrefix \o <<"x">>,
      ServicePrefix,
      <<>>,
      <<"a","=","1","&">> \o ServicePrefix \o GitUploadPack }

BodyBytes == <<"w","h","v","d">>
OutBytes == <<"0","0","0","8","N","A","K","\n">>
Bodies == { SubSeq(BodyBytes, 1, k) : k \in 0..MaxBody }
Outputs == { SubSeq(OutBytes, 1, k) : k \in 0..MaxOut }
ErrOutputs == { <<"f","a","t","a","l">> }

\* ------------------------------------------------------------ pure helpers

StartsWith(s, p) == Len(s) >= Len(p) /\ SubSeq(s, 1, Len(p)) = p

\* str::strip_prefix: Some(rest) or None.
StripPrefix(s, p) ==
    IF StartsWith(s, p) THEN Some(SubSeq(s, Len(p) + 1, Len(s))) ELSE None

\* str::trim_start_matches: removes the prefix as often as it repeats.
RECURSIVE TrimStartMatches(_, _)
TrimStartMatches(s, p) ==
    IF Len(p) > 0 /\ StartsWith(s, p)
    THEN TrimStartMatches(SubSeq(s, Len(p) + 1, Len(s)), p)
    ELSE s

LowerHexChars == <<"0","1","2","3","4","5","6","7","8","9","a","b","c","d","e","f">>

RECURSIVE HexDigits(_)
HexDigits(n) ==
    IF n < 16 THEN <<LowerHexChars[n + 1]>>
    ELSE HexDigits(n \div 16) \o <<LowerHexChars[(n % 16) + 1]>>

\* Mutant of FormatHex04: "{:x}", no zero padding.
FormatHex04NoPad(n) == HexDigits(n)

\* format!("{:04x}", n): lowercase hex, zero-padded to a MINIMUM width of 4.
FormatHex04(n) ==
    LET d == HexDigits(n)
    IN  IF Len(d) >= 4 THEN d ELSE [i \in 1..(4 - Len(d)) |-> "0"] \o d

\* ------------------------------------------------------------- the auth gate

B64Alphabet ==
    <<"A","B","C","D","E","F","G","H","I","J","K","L","M","N","O","P","Q","R","S","T","U","V","W","X","Y","Z",
      "a","b","c","d","e","f","g","h","i","j","k","l","m","n","o","p","q","r","s","t","u","v","w","x","y","z",
      "0","1","2","3","4","5","6","7","8","9","+","/">>

IsB64Char(c) == \E i \in 1..64 : B64Alphabet[i] = c
B64Value(c) == (CHOOSE i \in 1..64 : B64Alphabet[i] = c) - 1

\* One group of four base64 characters: Some(bytes) or None.  The last group
\* may end in "=" or "==" ; the bits it leaves over must be zero.
B64Group(g, last) ==
    IF IsB64Char(g[1]) /\ IsB64Char(g[2]) /\ IsB64Char(g[3]) /\ IsB64Char(g[4])
    THEN LET n == B64Value(g[1]) * 262144 + B64Value(g[2]) * 4096
                  + B64Value(g[3]) * 64 + B64Value(g[4])
         IN  Some(<<n \div 65536, (n \div 256) % 256, n % 256>>)
    ELSE IF last /\ IsB64Char(g[1]) /\ IsB64Char(g[2]) /\ IsB64Char(g[3]) /\ g[4] = "="
    THEN LET n == B64Value(g[1]) * 4096 + B64Value(g[2]) * 64 + B64Value(g[3])
         IN  IF n % 4 = 0 THEN Some(<<n \div 1024, (n \div 4) % 256>>) ELSE None
    ELSE IF last /\ IsB64Char(g[1]) /\ IsB64Char(g[2]) /\ g[3] = "=" /\ g[4] = "="
    THEN LET n == B64Value(g[1]) * 64 + B64Value(g[2])
         IN  IF n % 16 = 0 THEN Some(<<n \div 16>>) ELSE None
    ELSE None

\* BASE64 (the STANDARD engine, padding required).decode: Some(bytes) or None.
RECURSIVE Base64Decode(_)
Base64Decode(s) ==
    IF Len(s) = 0 THEN Some(<<>>)
    ELSE IF Len(s) < 4 THEN None
    ELSE LET g == B64Group(SubSeq(s, 1, 4), Len(s) = 4)
             rest == Base64Decode(SubSeq(s, 5, Len(s)))
         IN  IF IsSome(g) /\ IsSome(rest) THEN Some(Unwrap(g) \o Unwrap(rest)) ELSE None

\* String::from_utf8 accepts exactly the well-formed UTF-8 byte sequences.
RECURSIVE Utf8Valid(_)
Utf8Valid(b) ==
    IF Len(b) = 0 THEN TRUE
    ELSE LET need == IF b[1] < 128 THEN 0
                     ELSE IF b[1] >= 194 /\ b[1] <= 223 THEN 1
                     ELSE IF b[1] >= 224 /\ b[1] <= 239 THEN 2
                     ELSE IF b[1] >= 240 /\ b[1] <= 244 THEN 3
                     ELSE 4
         IN  /\ need < 4
             /\ Len(b) >= need + 1
             /\ \A i \in 2..(need + 1) : b[i] >= 128 /\ b[i] <= 191
             /\ (need = 2 /\ b[1] = 224 => b[2] >= 160)
             /\ (need = 2 /\ b[1] = 237 => b[2] <= 159)
             /\ (need = 3 /\ b[1] = 240 => b[2] >= 144)
             /\ (need = 3 /\ b[1] = 244 => b[2] <= 143)
             /\ Utf8Valid(SubSeq(b, need + 2, Len(b)))

Colon == 58

\* credentials_str.splitn(2, ':'): one part when there is no ':', else the text
\* before the first ':' and everything after it.
SplitN2(b) ==
    IF \E i \in 1..Len(b) : b[i] = Colon
    THEN LET i == CHOOSE k \in 1..Len(b) : b[k] = Colon /\ \A j \in 1..(k - 1) : b[j] # Colon
         IN  <<SubSeq(b, 1, i - 1), SubSeq(b, i + 1, Len(b))>>
    ELSE <<b>>

\* The identity store's users table (bytes of username and password).
\* Rows: a with password "p", b with password "p:q".
Users ==
    { [username |-> <<97>>, password |-> <<112>>],
      [username |-> <<98>>, password |-> <<112, 58, 113>>] }

\* User::authenticate(username, password, conn): Some(user) or None.
Authenticate(username, password) ==
    IF \E u \in Users : u.username = username /\ u.password = password
    THEN Some(CHOOSE u \in Users : u.username = username /\ u.password = password)
    ELSE None

BasicPrefix == <<"B","a","s","i","c"," ">>

\* Mutant of check_auth: the password is not verified against the store.
check_authNoVerify(auth) ==
    IF ~IsSome(auth) THEN None
    ELSE IF ~StartsWith(Unwrap(auth), BasicPrefix) THEN None
    ELSE Some(CHOOSE u \in Users : TRUE)

\* check_auth(req, db): auth is Option<header value>; Some(user) or None.
check_auth(auth) ==
    IF ~IsSome(auth) THEN None
    ELSE LET auth_str == Unwrap(auth)
         IN  IF ~StartsWith(auth_str, BasicPrefix) THEN None
             ELSE LET credentials == Base64Decode(TrimStartMatches(auth_str, BasicPrefix))
                  IN  IF ~IsSome(credentials) THEN None
                      ELSE IF ~Utf8Valid(Unwrap(credentials)) THEN None
                      ELSE LET parts == SplitN2(Unwrap(credentials))
                           IN  IF Len(parts) < 2 THEN None
                               ELSE Authenticate(parts[1], parts[2])

\* Authorization headers a client may send: none, valid credentials (a:p),
\* a wrong password (a:q), another scheme.
AuthHeaders ==
    { None,
      Some(BasicPrefix \o <<"Y","T","p","w">>),
      Some(BasicPrefix \o <<"Y","T","p","x">>),
      Some(<<"B","e","a","r","e","r"," ","Y","T","p","w">>) }

\* format!("# service={}\n", service)
ServiceHeader(service) == ServiceHeaderPrefix \o service \o <<"\n">>

\* Mutant of RepoPath: every request is served from one repository.
RepoPathShared(repo_name) == <<"repositories", "r1.git">>

\* PathBuf::from("repositories").join(format!("{}.git", repo_name))
RepoPath(repo_name) == <<"repositories", repo_name \o ".git">>


\* ------------------------------------------------------------------- state

VARIABLES
    pc,      \* pc[q]: where request task q stands in its handler
    req,     \* req[q]: the request q handles
    resp,    \* resp[q]: the HttpResponse q's handler returned (status 0: none yet)
    child,   \* child[q]: the Child handle the handler owns (a pid) or NoChild
    procs,   \* procs[p]: the helper process in process-table slot p
    trace,   \* trace[q]: the helper lifecycle events of q's handler, in order
    logged,  \* logged[q]: what q's handler wrote to the server log with error!
    connMutex, \* who holds the lock of Database.conn (a task), or "free"
    connected, \* connected[q]: the client of q's request still has its connection open
    reads,   \* reads[q]: the filesystem paths q's handler has passed to fs::read
    arg,     \* the input of a function applied on its own
    result,  \* what that function returned (None: not applied yet)
    pipes,   \* the two pipes between a POST handler and its helper, byte by byte
    db,      \* the tables of the identity store's database
    disk,    \* the directories the API handlers create on disk
    locals   \* locals[q]: the local variables of the API operation task q runs

\* The variables the protocol handlers never touch.
auxVars == <<connMutex, connected, reads, arg, result, pipes, db, disk, locals>>

vars == <<pc, req, resp, child, procs, trace, logged, connMutex, connected, reads, arg, result,
         pipes, db, disk, locals>>

NoReq == [endpoint |-> "none", repo |-> "", auth |-> None, query |-> <<>>, body |-> <<>>]
NoResp == [status |-> 0, wwwAuth |-> "", contentType |-> <<>>, body |-> <<>>]
NoProc == [state |-> "none", owner |-> "", users |-> {}, argv |-> <<>>, stdinOpen |-> FALSE,
           inbuf |-> <<>>, code |-> 0, out |-> <<>>, err |-> <<>>]

PostEndpoints == {"git-upload-pack", "git-receive-pack"}

\* The requests clients send to the three protocol endpoints.
Requests ==
    { [endpoint |-> "info/refs", repo |-> n, auth |-> a, query |-> q, body |-> <<>>] :
        n \in RepoNames, a \in AuthHeaders, q \in Queries }
    \cup
    { [endpoint |-> e, repo |-> n, auth |-> a, query |-> <<>>, body |-> b] :
        e \in PostEndpoints, n \in RepoNames, a \in AuthHeaders, b \in Bodies }

\* ------------------------------------------------------------- responses

\* HttpResponse::Unauthorized().append_header(("WWW-Authenticate", "Basic realm=\"Git\"")).finish()
Unauthorized ==
    [status |-> 401, wwwAuth |-> "Basic realm=\"Git\"", contentType |-> <<>>, body |-> <<>>]
\* HttpResponse::BadRequest().finish()
BadRequest == [status |-> 400, wwwAuth |-> "", contentType |-> <<>>, body |-> <<>>]
\* HttpResponse::InternalServerError().finish()
InternalServerError == [status |-> 500, wwwAuth |-> "", contentType |-> <<>>, body |-> <<>>]
\* HttpResponse::Ok().content_type(ct).body(b)
Ok(ct, b) == [status |-> 200, wwwAuth |-> "", contentType |-> ct, body |-> b]

\* ------------------------------------------------------ the git helper (git)

\* Exit codes of a helper run against a repository name: git exits non-zero
\* (128) when the path is not a repository.
ExitCodes(repo_name) == IF repo_name \in ExistingRepos THEN {0, 1} ELSE {128}

\* The sub-command handle_info_refs picks for a service string.
git_command(service) == IF service = GitUploadPack THEN "upload-pack" ELSE "receive-pack"

\* The sub-command of a POST endpoint's handler.
PostCommand(endpoint) == IF endpoint = "git-upload-pack" THEN "upload-pack" ELSE "receive-pack"

\* The pid the operating system gives the next helper.
FreshPid == CHOOSE p \in Pids : procs[p].state = "none"

\* Nothing in the pipes, no rows, no locals: the state of the parts a
\* specification does not exercise.
NoPipes ==
    [body |-> 0, total |-> 0, stdin |-> 0, stdout |-> 0, written |-> 0, consumed |-> 0,
     produced |-> 0, collected |-> 0, closed |-> FALSE, eof |-> FALSE,
     hnext |-> "idle", hstate |-> "none"]
EmptyDb == [repositories |-> <<>>, pull_requests |-> <<>>, notifications |-> <<>>, comments |-> <<>>]
NoLocals == [op |-> "none"]

Init ==
    /\ pc = [q \in Reqs |-> "idle"]
    /\ req = [q \in Reqs |-> NoReq]
    /\ resp = [q \in Reqs |-> NoResp]
    /\ child = [q \in Reqs |-> NoChild]
    /\ procs = [p \in Pids |-> NoProc]
    /\ trace = [q \in Reqs |-> <<>>]
    /\ logged = [q \in Reqs |-> <<>>]
    /\ connMutex = "free"
    /\ connected = [q \in Reqs |-> TRUE]
    /\ reads = [q \in Reqs |-> <<>>]
    /\ arg = None
    /\ result = None
    /\ pipes = NoPipes
    /\ db = EmptyDb
    /\ disk = {}
    /\ locals = [q \in Reqs |-> NoLocals]


\* ------------------------------------------------- pieces of the handlers

\* Mutant of InfoRefsBody: the helper's output is framed once more.
InfoRefsBodyReframed(service, stdout) ==
    FormatHex04(Len(ServiceHeader(service)) + 4) \o ServiceHeader(service) \o FlushPkt
        \o FormatHex04(Len(stdout) + 4) \o stdout

\* The advertisement body handle_info_refs builds: the length prefix, the
\* service header, the flush marker, then the helper's stdout.
InfoRefsBody(service, stdout) ==
    LET service_header == ServiceHeader(service)
        header_length == Len(service_header) + 4
    IN  FormatHex04(header_length) \o service_header \o FlushPkt \o stdout

\* format!("application/x-{}-advertisement", service)
AdvertisementType(service) == <<"application/x-">> \o service \o <<"-advertisement">>

\* "application/x-git-upload-pack-result" / "application/x-git-receive-pack-result"
ResultType(endpoint) == <<"application/x-", endpoint, "-result">>

\* Mutant of HelperFailure: the error stream is echoed to the client.
HelperFailureEchoed(stderr) ==
    [resp |-> [InternalServerError EXCEPT !.body = stderr], log |-> <<stderr>>]

\* if !output.status.success(): error!(.., stderr) and a bare 500.
HelperFailure(stderr) == [resp |-> InternalServerError, log |-> <<stderr>>]

\* Mutant of write_all: a single write() call, which may stop after one byte.
write_once(body) == IF body = <<>> THEN body ELSE <<body[1]>>

\* stdin.write_all(&body): what reaches the helper's input when it succeeds.
write_all(body) == body

\* Mutant of WaitReturns: the handler does not block until the helper exits.
WaitReturnsAtOnce(p) == TRUE

\* child.wait_with_output() returns only once the helper has terminated.
WaitReturns(p) == procs[p].state = "exited"

\* A helper's standard error: git reports a failure there.
ErrOf(code) == IF code = 0 THEN <<>> ELSE CHOOSE e \in ErrOutputs : TRUE

\* The process a successful spawn creates for task q.
NewProc(q, argv, piped) ==
    [state |-> "running", owner |-> q, users |-> {q}, argv |-> argv, stdinOpen |-> piped,
     inbuf |-> <<>>, code |-> 0, out |-> <<>>, err |-> <<>>]

Touch(p, q) == [procs[p] EXCEPT !.users = @ \cup {q}]

\* ------------------------------------------------------- handle_info_refs

\* Mutant of InfoRefsBegin: the service parameter is validated before the
\* auth gate is asked.
InfoRefsBeginServiceFirst(q, rq) ==
    /\ pc[q] = "idle"
    /\ rq.endpoint = "info/refs"
    /\ req' = [req EXCEPT ![q] = rq]
    /\ IF ~IsSome(StripPrefix(rq.query, ServicePrefix))
       THEN /\ resp' = [resp EXCEPT ![q] = BadRequest]
            /\ pc' = [pc EXCEPT ![q] = "done"]
       ELSE IF ~IsSome(check_auth(rq.auth))
       THEN /\ resp' = [resp EXCEPT ![q] = Unauthorized]
            /\ pc' = [pc EXCEPT ![q] = "done"]
       ELSE /\ resp' = resp
            /\ pc' = [pc EXCEPT ![q] = "ir_output"]
    /\ UNCHANGED <<child, procs, trace, logged>>

\* Entry of handle_info_refs: the auth gate, then the service parameter.
InfoRefsBegin(q, rq) ==
    /\ pc[q] = "idle"
    /\ rq.endpoint = "info/refs"
    /\ req' = [req EXCEPT ![q] = rq]
    /\ IF ~IsSome(check_auth(rq.auth))
       THEN /\ resp' = [resp EXCEPT ![q] = Unauthorized]
            /\ pc' = [pc EXCEPT ![q] = "done"]
       ELSE IF ~IsSome(StripPrefix(rq.query, ServicePrefix))
       THEN /\ resp' = [resp EXCEPT ![q] = BadRequest]
            /\ pc' = [pc EXCEPT ![q] = "done"]
       ELSE /\ resp' = resp
            /\ pc' = [pc EXCEPT ![q] = "ir_output"]
    /\ UNCHANGED <<child, procs, trace, logged>>

\* Command::new("git").arg(git_command).arg("--advertise-refs").arg(&repo_path)
\* .output().expect(..), then the response.
InfoRefsOutput(q) ==
    /\ pc[q] = "ir_output"
    /\ LET service == Unwrap(StripPrefix(req[q].query, ServicePrefix))
           argv == <<"git", git_command(service), "--advertise-refs", RepoPath(req[q].repo)>>
       IN  \/ \* the helper cannot be started: expect() panics
              /\ pc' = [pc EXCEPT ![q] = "panicked"]
              /\ trace' = [trace EXCEPT ![q] = @ \o <<"spawn_failed">>]
              /\ UNCHANGED <<resp, child, procs, logged>>
           \/ \* the helper runs to its end
              \E code \in ExitCodes(req[q].repo), out \in Outputs :
                LET p == FreshPid
                    err == ErrOf(code)
                IN  /\ child' = [child EXCEPT ![q] = p]
                    /\ procs' = [procs EXCEPT ![p] =
                            [NewProc(q, argv, FALSE) EXCEPT
                                !.state = "exited", !.code = code, !.out = out, !.err = err]]
                    /\ trace' = [trace EXCEPT ![q] = @ \o <<"spawn", "wait">>]
                    /\ pc' = [pc EXCEPT ![q] = "done"]
                    /\ IF code # 0
                       THEN /\ resp' = [resp EXCEPT ![q] = HelperFailure(err).resp]
                            /\ logged' = [logged EXCEPT ![q] = @ \o HelperFailure(err).log]
                       ELSE /\ resp' = [resp EXCEPT ![q] =
                                    Ok(AdvertisementType(service), InfoRefsBody(service, out))]
                            /\ logged' = logged
    /\ UNCHANGED req

\* ----------------------------- handle_upload_pack and handle_receive_pack

\* Entry of a POST handler: the auth gate.
PostBegin(q, rq) ==
    /\ pc[q] = "idle"
    /\ rq.endpoint \in PostEndpoints
    /\ req' = [req EXCEPT ![q] = rq]
    /\ IF ~IsSome(check_auth(rq.auth))
       THEN /\ resp' = [resp EXCEPT ![q] = Unauthorized]
            /\ pc' = [pc EXCEPT ![q] = "done"]
       ELSE /\ resp' = resp
            /\ pc' = [pc EXCEPT ![q] = "spawn"]
    /\ UNCHANGED <<child, procs, trace, logged>>

\* Command::new("git")...stdin/stdout/stderr piped...spawn().expect(..)
Spawn(q) ==
    /\ pc[q] = "spawn"
    /\ LET argv == <<"git", PostCommand(req[q].endpoint), "--stateless-rpc", RepoPath(req[q].repo)>>
       IN  \/ /\ pc' = [pc EXCEPT ![q] = "panicked"]
              /\ trace' = [trace EXCEPT ![q] = @ \o <<"spawn_failed">>]
              /\ UNCHANGED <<child, procs>>
           \/ LET p == FreshPid
              IN  /\ child' = [child EXCEPT ![q] = p]
                  /\ procs' = [procs EXCEPT ![p] = NewProc(q, argv, TRUE)]
                  /\ trace' = [trace EXCEPT ![q] = @ \o <<"spawn">>]
                  /\ pc' = [pc EXCEPT ![q] = "write"]
    /\ UNCHANGED <<req, resp, logged>>

\* The helper of slot p terminates (at any time after its start).
HelperExit(p) ==
    /\ procs[p].state = "running"
    /\ \E code \in ExitCodes(req[procs[p].owner].repo), out \in Outputs :
         procs' = [procs EXCEPT ![p] =
             [@ EXCEPT !.state = "exited", !.code = code, !.out = out, !.err = ErrOf(code)]]
    /\ UNCHANGED <<pc, req, resp, child, trace, logged>>

\* stdin.write_all(&body).expect(..): all of the body reaches the helper, or
\* the helper has closed its input (it exited) and the write fails after k
\* bytes, which panics; unwinding drops stdin.
Write(q) ==
    /\ pc[q] = "write"
    /\ LET p == child[q]
           body == req[q].body
       IN  \/ /\ body = <<>> \/ procs[p].state = "running"
              /\ procs' = [procs EXCEPT ![p] = [Touch(p, q) EXCEPT !.inbuf = write_all(body)]]
              /\ trace' = [trace EXCEPT ![q] = @ \o <<"write">>]
              /\ pc' = [pc EXCEPT ![q] = "close"]
           \/ /\ body # <<>>
              /\ \E k \in 0..(Len(body) - 1) :
                   /\ procs[p].state = "exited" => k = 0
                   /\ procs' = [procs EXCEPT ![p] =
                        [Touch(p, q) EXCEPT !.inbuf = SubSeq(body, 1, k), !.stdinOpen = FALSE]]
              /\ trace' = [trace EXCEPT ![q] = @ \o <<"write_failed">>]
              /\ pc' = [pc EXCEPT ![q] = "panicked"]
    /\ UNCHANGED <<req, resp, child, logged>>

\* drop(stdin): the end-of-input signal.
Close(q) ==
    /\ pc[q] = "close"
    /\ procs' = [procs EXCEPT ![child[q]] = [Touch(child[q], q) EXCEPT !.stdinOpen = FALSE]]
    /\ trace' = [trace EXCEPT ![q] = @ \o <<"close">>]
    /\ pc' = [pc EXCEPT ![q] = "wait"]
    /\ UNCHANGED <<req, resp, child, logged>>

\* child.wait_with_output().expect(..), then the response.
Wait(q) ==
    /\ pc[q] = "wait"
    /\ LET p == child[q]
       IN  \/ /\ WaitReturns(p)
              /\ procs' = [procs EXCEPT ![p] = Touch(p, q)]
              /\ trace' = [trace EXCEPT ![q] = @ \o <<"wait">>]
              /\ pc' = [pc EXCEPT ![q] = "done"]
              /\ IF procs[p].code # 0
                 THEN /\ resp' = [resp EXCEPT ![q] = HelperFailure(procs[p].err).resp]
                      /\ logged' = [logged EXCEPT ![q] = @ \o HelperFailure(procs[p].err).log]
                 ELSE /\ resp' = [resp EXCEPT ![q] = Ok(ResultType(req[q].endpoint), procs[p].out)]
                      /\ logged' = logged
           \/ /\ procs' = [procs EXCEPT ![p] = Touch(p, q)]
              /\ trace' = [trace EXCEPT ![q] = @ \o <<"wait_failed">>]
              /\ pc' = [pc EXCEPT ![q] = "panicked"]
              /\ UNCHANGED <<resp, logged>>
    /\ UNCHANGED <<req, child>>

\* The task ends (the response is sent, or the panic has unwound): the Child
\* handle is dropped and the task takes its next request.
Finish(q) ==
    /\ pc[q] \in {"done", "panicked"}
    /\ pc' = [pc EXCEPT ![q] = "idle"]
    /\ req' = [req EXCEPT ![q] = NoReq]
    /\ resp' = [resp EXCEPT ![q] = NoResp]
    /\ child' = [child EXCEPT ![q] = NoChild]
    /\ procs' = [p \in Pids |-> IF p = child[q] THEN NoProc ELSE procs[p]]
    /\ trace' = [trace EXCEPT ![q] = <<>>]
    /\ logged' = [logged EXCEPT ![q] = <<>>]

Next ==
    \/ \E q \in Reqs, rq \in Requests : InfoRefsBegin(q, rq) /\ UNCHANGED auxVars
    \/ \E q \in Reqs : InfoRefsOutput(q) /\ UNCHANGED auxVars
    \/ \E q \in Reqs, rq \in Requests : PostBegin(q, rq) /\ UNCHANGED auxVars
    \/ \E q \in Reqs : Spawn(q) /\ UNCHANGED auxVars
    \/ \E p \in Pids : HelperExit(p) /\ UNCHANGED auxVars
    \/ \E q \in Reqs : Write(q) /\ UNCHANGED auxVars
    \/ \E q \in Reqs : Close(q) /\ UNCHANGED auxVars
    \/ \E q \in Reqs : Wait(q) /\ UNCHANGED auxVars
    \/ \E q \in Reqs : Finish(q) /\ UNCHANGED auxVars

Spec == Init /\ [][Next]_vars

\* ------------------------------------------------ the Static Object Server

\* Repository names sent to the static endpoints: r1 is a repository with a
\* pack catalog and packs, r2 one whose catalog cannot be read, nope is absent.
StaticRepoNames == {"r1", "r2", "nope"}

\* Values of {pack_file}: the route pattern matches one path segment (no '/').
PackFileNames == {"pack-1.pack", "pack-2.pack", "none.pack", ".."}

\* Values of {tail:.*}: the rest of the URL path, '/' included.
Tails == {"README.md", "../../secret", "missing.txt"}

\* HttpResponse::NotFound().finish()
NotFound == [status |-> 404, wwwAuth |-> "", contentType |-> <<>>, body |-> <<>>]

\* PathBuf::join(path): path replaces base when it is absolute. A path is the
\* sequence of its components, "/" first when it is absolute.
Join(base, path) == IF path # <<>> /\ path[1] = "/" THEN path ELSE base \o path

\* PathBuf::from("repositories").join(format!("{}.git", repo_name)).join("objects/info/packs")
InfoPacksPath(repo_name) ==
    Join(Join(<<"repositories">>, <<repo_name \o ".git">>), <<"objects", "info", "packs">>)

\* PathBuf::from("repositories").join(format!("{}.git", repo_name)).join("objects/pack").join(pack_file)
PackFilePath(repo_name, pack_file) ==
    Join(Join(Join(<<"repositories">>, <<repo_name \o ".git">>), <<"objects", "pack">>),
         <<pack_file>>)

\* What the operating system makes of a path: "." stays, ".." steps to the
\* parent directory.
RECURSIVE Resolve(_)
Resolve(path) ==
    IF path = <<>> THEN <<>>
    ELSE LET front == Resolve(SubSeq(path, 1, Len(path) - 1))
             last == path[Len(path)]
         IN  IF last = "." THEN front
             ELSE IF last = ".." THEN
                     (IF front = <<>> \/ front = <<"/">> THEN front
                      ELSE SubSeq(front, 1, Len(front) - 1))
             ELSE Append(front, last)

CatalogBytes == <<"P", " ", "p", "1", "\n">>
PackBytes == <<"P", "A", "C", "K">>

\* The repositories directory on disk.
Directories ==
    { <<"repositories">> }
    \cup UNION { { <<"repositories", n \o ".git">>,
                   <<"repositories", n \o ".git", "objects">>,
                   <<"repositories", n \o ".git", "objects", "info">>,
                   <<"repositories", n \o ".git", "objects", "pack">> } : n \in {"r1", "r2"} }
ReadableFiles ==
    { <<"repositories", "r1.git", "objects", "info", "packs">>,
      <<"repositories", "r1.git", "objects", "pack", "pack-1.pack">> }
UnreadableFiles ==
    { <<"repositories", "r1.git", "objects", "pack", "pack-2.pack">>,
      <<"repositories", "r2.git", "objects", "info", "packs">> }
FileContent(path) == IF path[Len(path)] = "packs" THEN CatalogBytes ELSE PackBytes

\* fs::read(&path): the whole content of a readable regular file, or an error.
fs_read(path) ==
    LET target == Resolve(path)
    IN  IF target \in ReadableFiles THEN [ok |-> TRUE, content |-> FileContent(target), err |-> ""]
        ELSE IF target \in UnreadableFiles
        THEN [ok |-> FALSE, content |-> <<>>, err |-> "PermissionDenied"]
        ELSE IF target \in Directories
        THEN [ok |-> FALSE, content |-> <<>>, err |-> "IsADirectory"]
        ELSE [ok |-> FALSE, content |-> <<>>, err |-> "NotFound"]

\* Mutant of ReadResponse: the status tells the cause of the failure.
ReadResponseByCause(content_type, r) ==
    IF r.ok THEN Ok(content_type, r.content)
    ELSE IF r.err = "PermissionDenied" THEN [NotFound EXCEPT !.status = 403]
    ELSE NotFound

\* match fs::read(..) { Ok(content) => Ok().content_type(..).body(content),
\*                      Err(_) => NotFound().finish() }
ReadResponse(content_type, r) ==
    IF r.ok THEN Ok(content_type, r.content) ELSE NotFound

\* Mutant of ShowResponse: a failed git show is reported with its error text.
ShowResponseEchoed(started, code, stdout, stderr) ==
    IF started /\ code = 0 THEN Ok(<<"text/plain">>, stdout)
    ELSE [NotFound EXCEPT !.body = stderr]

\* match output { Ok(output) if output.status.success() => Ok()..body(output.stdout),
\*                _ => NotFound().finish() }
ShowResponse(started, code, stdout, stderr) ==
    IF started /\ code = 0 THEN Ok(<<"text/plain">>, stdout) ELSE NotFound

\* The requests clients send to the three static endpoints.
StaticRequests ==
    { [endpoint |-> "objects/info/packs", repo |-> n, auth |-> a, file |-> ""] :
        n \in StaticRepoNames, a \in AuthHeaders }
    \cup
    { [endpoint |-> "objects/pack", repo |-> n, auth |-> a, file |-> f] :
        n \in StaticRepoNames, a \in AuthHeaders, f \in PackFileNames }
    \cup
    { [endpoint |-> "file", repo |-> n, auth |-> a, file |-> t] :
        n \in StaticRepoNames, a \in AuthHeaders, t \in Tails }

\* Mutant of MatchInfo: the repository served depends on who asks.
MatchInfoByIdentity(rq) ==
    [repo_name |-> IF IsSome(check_auth(rq.auth)) THEN rq.repo ELSE "nope", file |-> rq.file]

\* req.match_info(): the path parameters, the only part of the request the
\* static handlers read.
MatchInfo(rq) == [repo_name |-> rq.repo, file |-> rq.file]

\* handle_info_packs
InfoPacks(q, rq) ==
    /\ pc[q] = "idle"
    /\ rq.endpoint = "objects/info/packs"
    /\ req' = [req EXCEPT ![q] = rq]
    /\ LET repo_path == InfoPacksPath(MatchInfo(rq).repo_name)
       IN  /\ reads' = [reads EXCEPT ![q] = Append(@, repo_path)]
           /\ resp' = [resp EXCEPT ![q] = ReadResponse(<<"text/plain">>, fs_read(repo_path))]
    /\ pc' = [pc EXCEPT ![q] = "done"]
    /\ UNCHANGED <<child, procs, trace, logged>>

\* handle_pack_file
PackFile(q, rq) ==
    /\ pc[q] = "idle"
    /\ rq.endpoint = "objects/pack"
    /\ req' = [req EXCEPT ![q] = rq]
    /\ LET repo_path == PackFilePath(MatchInfo(rq).repo_name, MatchInfo(rq).file)
       IN  /\ reads' = [reads EXCEPT ![q] = Append(@, repo_path)]
           /\ resp' = [resp EXCEPT ![q] =
                   ReadResponse(<<"application/x-git-pack">>, fs_read(repo_path))]
    /\ pc' = [pc EXCEPT ![q] = "done"]
    /\ UNCHANGED <<child, procs, trace, logged>>

\* handle_text_file: git --git-dir repositories/<repo>.git show HEAD:<tail>,
\* run to its end with output(); a helper that cannot be started and a helper
\* that exits non-zero both give 404.
TextFile(q, rq) ==
    /\ pc[q] = "idle"
    /\ rq.endpoint = "file"
    /\ req' = [req EXCEPT ![q] = rq]
    /\ pc' = [pc EXCEPT ![q] = "done"]
    /\ LET repo_name == MatchInfo(rq).repo_name
           path == MatchInfo(rq).file
           argv == <<"git", "--git-dir", "repositories/" \o repo_name \o ".git",
                     "show", "HEAD:" \o path>>
       IN  \/ /\ resp' = [resp EXCEPT ![q] = ShowResponse(FALSE, 0, <<>>, <<>>)]
              /\ trace' = [trace EXCEPT ![q] = @ \o <<"spawn_failed">>]
              /\ UNCHANGED <<child, procs>>
           \/ \E code \in ExitCodes(repo_name), out \in Outputs :
                LET p == FreshPid
                    err == ErrOf(code)
                IN  /\ child' = [child EXCEPT ![q] = p]
                    /\ procs' = [procs EXCEPT ![p] =
                            [NewProc(q, argv, FALSE) EXCEPT
                                !.state = "exited", !.code = code, !.out = out, !.err = err]]
                    /\ trace' = [trace EXCEPT ![q] = @ \o <<"spawn", "wait">>]
                    /\ resp' = [resp EXCEPT ![q] = ShowResponse(TRUE, code, out, err)]
    /\ UNCHANGED <<logged, reads>>

\* The static endpoints on their own: two request tasks, each serving one
\* static request after the other.
StaticNext ==
    \/ \E q \in Reqs, rq \in StaticRequests :
         InfoPacks(q, rq) /\ UNCHANGED <<connMutex, connected, arg, result, pipes, db, disk, locals>>
    \/ \E q \in Reqs, rq \in StaticRequests :
         PackFile(q, rq) /\ UNCHANGED <<connMutex, connected, arg, result, pipes, db, disk, locals>>
    \/ \E q \in Reqs, rq \in StaticRequests :
         TextFile(q, rq) /\ UNCHANGED <<connMutex, connected, arg, result, pipes, db, disk, locals>>
    \/ \E q \in Reqs :
         /\ Finish(q)
         /\ reads' = [reads EXCEPT ![q] = <<>>]
         /\ UNCHANGED <<connMutex, connected, arg, result, pipes, db, disk, locals>>

SpecStatic == Init /\ [][StaticNext]_vars



\* =================================================================== claims

\* --------------------------------------------- the pkt-line codec of the spec

HexDigitChars == {"0","1","2","3","4","5","6","7","8","9","a","b","c","d","e","f"}
HexDigitValue(c) == (CHOOSE i \in 1..16 : LowerHexChars[i] = c) - 1

\* hex4(n): the four hex digits of n, most significant first.
Hex4(n) ==
    <<LowerHexChars[((n \div 4096) % 16) + 1], LowerHexChars[((n \div 256) % 16) + 1],
      LowerHexChars[((n \div 16) % 16) + 1], LowerHexChars[(n % 16) + 1]>>

\* encodeLine(payload) = hex4(len(payload)+4) || payload
EncodeLine(payload) == Hex4(Len(payload) + 4) \o payload

\* The decoder: reads 4 hex digits; 0 is a flush; otherwise value-4 further
\* bytes are the payload.  Some(payload) or None (a ProtocolError).
DecodeLine(bytes) ==
    IF Len(bytes) < 4 \/ \E i \in 1..4 : bytes[i] \notin HexDigitChars THEN None
    ELSE LET n == HexDigitValue(bytes[1]) * 4096 + HexDigitValue(bytes[2]) * 256
                  + HexDigitValue(bytes[3]) * 16 + HexDigitValue(bytes[4])
         IN  IF n = 0 THEN Some(<<>>)
             ELSE IF n < 4 \/ Len(bytes) < n THEN None
             ELSE Some(SubSeq(bytes, 5, n))

\* --------------------------------------------------- vocabulary of the claims

ValidAuth == Some(BasicPrefix \o <<"Y","T","p","w">>)
Authenticated(q) == req[q].auth = ValidAuth
IsInfoRefs(q) == req[q].endpoint = "info/refs"
IsPost(q) == req[q].endpoint \in PostEndpoints
HasServiceParam(q) == StartsWith(req[q].query, ServicePrefix)
\* The service value S of a query string "service=S".
ServiceOf(q) == SubSeq(req[q].query, Len(ServicePrefix) + 1, Len(req[q].query))
SupportedServices == {GitUploadPack, GitReceivePack}
\* How often the handler of q started (or tried to start) a helper.
Invocations(q) ==
    Cardinality({i \in 1..Len(trace[q]) : trace[q][i] \in {"spawn", "spawn_failed"}})
Happened(q, e) == \E i \in 1..Len(trace[q]) : trace[q][i] = e
Responded(q) == resp[q].status # 0

\* C1: an authenticated info/refs request with service=S whose helper exits
\* zero with output O is answered 200 with the body pkt-line("# service=S\n"),
\* "0000", O, and nothing else.
C1_AdvertisementBody ==
    \A q \in Reqs :
        (/\ IsInfoRefs(q) /\ Authenticated(q) /\ HasServiceParam(q)
         /\ pc[q] = "done" /\ procs[child[q]].code = 0)
        => /\ resp[q].status = 200
           /\ resp[q].body =
                EncodeLine(<<"#"," ","s","e","r","v","i","c","e","=">> \o ServiceOf(q) \o <<"\n">>)
                \o <<"0","0","0","0">> \o procs[child[q]].out

C1_Witness ==
    \E q \in Reqs :
        /\ IsInfoRefs(q) /\ Authenticated(q) /\ ServiceOf(q) = GitReceivePack
        /\ pc[q] = "done" /\ resp[q].status = 200
        /\ procs[child[q]].code = 0 /\ Len(procs[child[q]].out) = MaxOut

C3_UnsupportedServiceIs400 ==
    \A q \in Reqs :
        (/\ IsInfoRefs(q) /\ Authenticated(q)
         /\ (~HasServiceParam(q) \/ ServiceOf(q) \notin SupportedServices))
        => /\ ~Happened(q, "spawn")
           /\ Responded(q) => resp[q].status = 400

\* C4: on each protocol endpoint a request without valid credentials is
\* answered 401 with WWW-Authenticate: Basic realm="Git", and no helper is
\* spawned while it is handled.
C4_UnauthenticatedIs401 ==
    \A q \in Reqs :
        (pc[q] # "idle" /\ ~Authenticated(q))
        => /\ pc[q] = "done"
           /\ resp[q].status = 401
           /\ resp[q].wwwAuth = "Basic realm=\"Git\""
           /\ resp[q].body = <<>>
           /\ Invocations(q) = 0
           /\ child[q] = NoChild
           /\ \A p \in Pids : procs[p].owner # q

C4_Witness ==
    /\ \E q \in Reqs : IsPost(q) /\ req[q].auth = None /\ resp[q].status = 401
    /\ \E q \in Reqs :
          /\ IsInfoRefs(q) /\ resp[q].status = 401
          /\ req[q].auth = Some(BasicPrefix \o <<"Y","T","p","x">>)


\* C5: an authenticated POST to git-upload-pack or git-receive-pack makes
\* exactly one helper invocation; when the handler closes the helper's input
\* the helper has received the complete request body; and when the helper
\* exits zero the response is 200 with exactly the helper's standard output.
C5_OneInvocationFullBody ==
    \A q \in Reqs :
        (IsPost(q) /\ Authenticated(q))
        => /\ Invocations(q) <= 1
           /\ pc[q] \in {"write", "close", "wait", "done", "panicked"} => Invocations(q) = 1
           /\ Happened(q, "close") => procs[child[q]].inbuf = req[q].body
           /\ (pc[q] = "done" /\ procs[child[q]].code = 0)
                => /\ resp[q].status = 200
                   /\ resp[q].body = procs[child[q]].out
                   /\ procs[child[q]].inbuf = req[q].body
                   /\ ~procs[child[q]].stdinOpen

C5_Witness ==
    \E q \in Reqs :
        /\ req[q].endpoint = "git-upload-pack" /\ Authenticated(q)
        /\ Len(req[q].body) = MaxBody /\ MaxBody > 0
        /\ pc[q] = "done" /\ resp[q].status = 200
        /\ Len(resp[q].body) = MaxOut /\ MaxOut > 0
        /\ procs[child[q]].inbuf = req[q].body

\* The helper lifecycle of a POST handler: spawn, write, close, wait, each
\* step possibly replaced by its failure, which ends the handler.
LifecycleOrders ==
    { <<>>, <<"spawn_failed">>, <<"spawn">>, <<"spawn", "write_failed">>, <<"spawn", "write">>,
      <<"spawn", "write", "close">>, <<"spawn", "write", "close", "wait_failed">>,
      <<"spawn", "write", "close", "wait">> }

\* C6: in a POST handler the helper's lifecycle events happen in the order
\* spawn, write whole body, close input, wait; a response is produced only
\* after the helper has terminated; and a child is used by no request other
\* than the one that spawned it.
C6_LifecycleOrder ==
    /\ \A q \in Reqs :
          IsPost(q)
          => /\ trace[q] \in LifecycleOrders
             /\ Happened(q, "write") => procs[child[q]].inbuf = req[q].body
             /\ Happened(q, "close") => ~procs[child[q]].stdinOpen
             /\ (Responded(q) /\ Authenticated(q))
                  => /\ resp[q].status \in {200, 500}
                     /\ Happened(q, "wait")
                     /\ procs[child[q]].state = "exited"
    /\ \A p \in Pids :
          procs[p].state # "none"
          => /\ procs[p].users \subseteq {procs[p].owner}
             /\ child[procs[p].owner] = p
    /\ \A q1, q2 \in Reqs : (q1 # q2 /\ child[q1] # NoChild) => child[q1] # child[q2]

C6_Witness ==
    \E q1, q2 \in Reqs :
        /\ q1 # q2 /\ IsPost(q1) /\ IsPost(q2)
        /\ trace[q1] = <<"spawn", "write", "close", "wait">> /\ resp[q1].status = 500
        /\ trace[q2] = <<"spawn", "write", "close">> /\ procs[child[q2]].state = "running"

\* C7: when a helper run by info/refs, git-upload-pack or git-receive-pack
\* exits non-zero the response is 500 with an empty body (nothing of the
\* helper's error stream or standard output), and the error stream goes to
\* the server log.
C7_HelperFailureIs500 ==
    \A q \in Reqs :
        (pc[q] = "done" /\ child[q] # NoChild /\ procs[child[q]].code # 0)
        => /\ resp[q].status = 500
           /\ resp[q].body = <<>>
           /\ resp[q].contentType = <<>>
           /\ logged[q] = <<procs[child[q]].err>>

C7_Witness ==
    /\ \E q \in Reqs :
          /\ IsInfoRefs(q) /\ pc[q] = "done" /\ resp[q].status = 500
          /\ procs[child[q]].code # 0 /\ procs[child[q]].err # <<>> /\ procs[child[q]].out # <<>>
    /\ \E q \in Reqs :
          /\ IsPost(q) /\ pc[q] = "done" /\ resp[q].status = 500
          /\ procs[child[q]].code # 0 /\ procs[child[q]].err # <<>> /\ procs[child[q]].out # <<>>

\* C8 (as claimed): a request to a pack-transfer endpoint naming a repository
\* without a directory repositories/<name>.git is answered 404, never 500,
\* and no helper is run against the missing path.  (A handler crashed by a
\* failed spawn is the subject of C9 and is left out here.)
C8_MissingRepoIs404 ==
    \A q \in Reqs :
        (IsPost(q) /\ Authenticated(q) /\ req[q].repo \notin ExistingRepos)
        => /\ ~Happened(q, "spawn")
           /\ Responded(q) => resp[q].status = 404

\* C9 (as claimed): when the helper cannot be spawned the request is answered
\* with a ServerError (500) response and the handler does not panic.
C9_SpawnFailureIs500 ==
    \A q \in Reqs :
        Happened(q, "spawn_failed") => (pc[q] = "done" /\ resp[q].status = 500)

\* C10 (as claimed): when writing the body to the helper's input fails, or
\* waiting for the helper fails, the POST request is answered with a
\* ServerError (500) response and the handler does not panic.
C10_StreamFailureIs500 ==
    \A q \in Reqs :
        (IsPost(q) /\ (Happened(q, "write_failed") \/ Happened(q, "wait_failed")))
        => (pc[q] = "done" /\ resp[q].status = 500)

\* -------------------- the gated handlers with the identity store's mutex

\* The requests of the concurrency model: both repositories, with and
\* without credentials, one service, bodies of one byte.
ConcRequests ==
    { rq \in Requests :
        /\ rq.auth \in {None, Some(BasicPrefix \o <<"Y","T","p","w">>)}
        /\ rq.endpoint = "info/refs" => rq.query = ServicePrefix \o GitUploadPack
        /\ rq.endpoint \in PostEndpoints => Len(rq.body) = 1 }

\* check_auth up to its call of the identity store: TRUE when the header
\* parses into a username and a password, so that User::authenticate is called.
ReachesStore(auth) ==
    /\ IsSome(auth)
    /\ StartsWith(Unwrap(auth), BasicPrefix)
    /\ LET credentials == Base64Decode(TrimStartMatches(Unwrap(auth), BasicPrefix))
       IN  /\ IsSome(credentials)
           /\ Utf8Valid(Unwrap(credentials))
           /\ Len(SplitN2(Unwrap(credentials))) >= 2

\* Mutant of MutexAfterAuth: the handler keeps the connection locked.
MutexKeptByHandler(q) == q

\* The holder of the connection mutex once check_auth has returned: the Arc
\* was moved into User::authenticate and only an Option<User> comes back, so
\* the guard is gone.
MutexAfterAuth(q) == "free"

\* Entry of a gated handler: check_auth parses the Authorization header.
GateEnter(q, rq) ==
    /\ pc[q] = "idle"
    /\ req' = [req EXCEPT ![q] = rq]
    /\ IF ReachesStore(rq.auth)
       THEN /\ pc' = [pc EXCEPT ![q] = "auth_lock"]
            /\ resp' = resp
       ELSE /\ pc' = [pc EXCEPT ![q] = "done"]
            /\ resp' = [resp EXCEPT ![q] = Unauthorized]
    /\ UNCHANGED <<child, procs, trace, logged, connMutex, connected, reads, arg, result, pipes, db, disk, locals>>

\* User::authenticate locks the connection (it waits while another task has it).
GateLock(q) ==
    /\ pc[q] = "auth_lock"
    /\ connMutex = "free"
    /\ connMutex' = q
    /\ pc' = [pc EXCEPT ![q] = "auth_locked"]
    /\ UNCHANGED <<req, resp, child, procs, trace, logged, connected, reads, arg, result, pipes, db, disk, locals>>

\* User::authenticate returns and check_auth with it; the handler goes on to
\* its service parameter (info/refs) or to its helper (POST).
GateReturn(q) ==
    /\ pc[q] = "auth_locked"
    /\ connMutex' = MutexAfterAuth(q)
    /\ IF ~IsSome(check_auth(req[q].auth))
       THEN /\ resp' = [resp EXCEPT ![q] = Unauthorized]
            /\ pc' = [pc EXCEPT ![q] = "done"]
       ELSE IF req[q].endpoint \in PostEndpoints
       THEN /\ resp' = resp
            /\ pc' = [pc EXCEPT ![q] = "spawn"]
       ELSE IF ~IsSome(StripPrefix(req[q].query, ServicePrefix))
       THEN /\ resp' = [resp EXCEPT ![q] = BadRequest]
            /\ pc' = [pc EXCEPT ![q] = "done"]
       ELSE /\ resp' = resp
            /\ pc' = [pc EXCEPT ![q] = "ir_output"]
    /\ UNCHANGED <<req, child, procs, trace, logged, connected, reads, arg, result, pipes, db, disk, locals>>

ConcNext ==
    \/ \E q \in Reqs, rq \in ConcRequests : GateEnter(q, rq)
    \/ \E q \in Reqs : GateLock(q)
    \/ \E q \in Reqs : GateReturn(q)
    \/ \E q \in Reqs : InfoRefsOutput(q) /\ UNCHANGED auxVars
    \/ \E q \in Reqs : Spawn(q) /\ UNCHANGED auxVars
    \/ \E p \in Pids : HelperExit(p) /\ UNCHANGED auxVars
    \/ \E q \in Reqs : Write(q) /\ UNCHANGED auxVars
    \/ \E q \in Reqs : Close(q) /\ UNCHANGED auxVars
    \/ \E q \in Reqs : Wait(q) /\ UNCHANGED auxVars
    \/ \E q \in Reqs : Finish(q) /\ UNCHANGED auxVars

SpecConc == Init /\ [][ConcNext]_vars

\* ------------------------------------------- a client that goes away

\* The client of q's request closes its connection. No handler looks at the
\* connection: each runs its blocking calls to the end.
Disconnect(q) ==
    /\ pc[q] # "idle"
    /\ connected[q]
    /\ connected' = [connected EXCEPT ![q] = FALSE]
    /\ trace' = [trace EXCEPT ![q] = @ \o <<"disconnect">>]
    /\ UNCHANGED <<pc, req, resp, child, procs, logged, connMutex, reads, arg, result, pipes, db, disk, locals>>

\* The gated handlers with clients that may disconnect at any moment.
CancelNext ==
    \/ \E q \in Reqs, rq \in ConcRequests : InfoRefsBegin(q, rq) /\ UNCHANGED auxVars
    \/ \E q \in Reqs : InfoRefsOutput(q) /\ UNCHANGED auxVars
    \/ \E q \in Reqs, rq \in ConcRequests : PostBegin(q, rq) /\ UNCHANGED auxVars
    \/ \E q \in Reqs : Spawn(q) /\ UNCHANGED auxVars
    \/ \E p \in Pids : HelperExit(p) /\ UNCHANGED auxVars
    \/ \E q \in Reqs : Write(q) /\ UNCHANGED auxVars
    \/ \E q \in Reqs : Close(q) /\ UNCHANGED auxVars
    \/ \E q \in Reqs : Wait(q) /\ UNCHANGED auxVars
    \/ \E q \in Reqs : Disconnect(q)
    \/ \E q \in Reqs :
         /\ Finish(q)
         /\ connected' = [connected EXCEPT ![q] = TRUE]
         /\ UNCHANGED <<connMutex, reads, arg, result, pipes, db, disk, locals>>

SpecCancel == Init /\ [][CancelNext]_vars

\* ------------------------------------------ all six endpoints together

\* Static requests without credentials (the static handlers ignore them).
PlainStaticRequests == { rq \in StaticRequests : rq.auth = None }

\* The protocol and the static endpoints side by side.
GatewayNext ==
    \/ \E q \in Reqs, rq \in ConcRequests : InfoRefsBegin(q, rq) /\ UNCHANGED auxVars
    \/ \E q \in Reqs : InfoRefsOutput(q) /\ UNCHANGED auxVars
    \/ \E q \in Reqs, rq \in ConcRequests : PostBegin(q, rq) /\ UNCHANGED auxVars
    \/ \E q \in Reqs : Spawn(q) /\ UNCHANGED auxVars
    \/ \E p \in Pids : HelperExit(p) /\ UNCHANGED auxVars
    \/ \E q \in Reqs : Write(q) /\ UNCHANGED auxVars
    \/ \E q \in Reqs : Close(q) /\ UNCHANGED auxVars
    \/ \E q \in Reqs : Wait(q) /\ UNCHANGED auxVars
    \/ \E q \in Reqs, rq \in PlainStaticRequests :
         InfoPacks(q, rq) /\ UNCHANGED <<connMutex, connected, arg, result, pipes, db, disk, locals>>
    \/ \E q \in Reqs, rq \in PlainStaticRequests :
         PackFile(q, rq) /\ UNCHANGED <<connMutex, connected, arg, result, pipes, db, disk, locals>>
    \/ \E q \in Reqs, rq \in PlainStaticRequests :
         TextFile(q, rq) /\ UNCHANGED <<connMutex, connected, arg, result, pipes, db, disk, locals>>
    \/ \E q \in Reqs :
         /\ Finish(q)
         /\ reads' = [reads EXCEPT ![q] = <<>>]
         /\ UNCHANGED <<connMutex, connected, arg, result, pipes, db, disk, locals>>

SpecGateway == Init /\ [][GatewayNext]_vars

\* ------------------------- a POST handler and its helper, byte by byte

\* The capacity of a pipe, the longest body and the longest helper output.
PipeCap == 1
MaxPipeBody == 2
MaxPipeOut == 2

\* An authenticated POST to git-upload-pack with a body of b bytes.
PipeRequest(b) ==
    [endpoint |-> "git-upload-pack", repo |-> "r1",
     auth |-> Some(BasicPrefix \o <<"Y","T","p","w">>), query |-> <<>>,
     body |-> [i \in 1..b |-> "w"]]

\* A write to a pipe that holds n bytes blocks while the pipe is full.
PipeBlocked(n) == n >= PipeCap

\* check_auth has accepted the request and spawn() has succeeded: the helper
\* runs with piped stdin and stdout; it will write o bytes in all.
PipeSpawn(q, b, o) ==
    /\ pc[q] = "idle"
    /\ pipes.hstate = "none"
    /\ req' = [req EXCEPT ![q] = PipeRequest(b)]
    /\ pipes' = [NoPipes EXCEPT !.body = b, !.total = o, !.hstate = "running"]
    /\ trace' = [trace EXCEPT ![q] = @ \o <<"spawn">>]
    /\ pc' = [pc EXCEPT ![q] = "pipe_write"]
    /\ UNCHANGED <<resp, child, procs, logged, connMutex, connected, reads, arg, result, db, disk, locals>>

\* stdin.write_all(&body): one more byte goes into the helper's input pipe,
\* once there is room for it.
PipeWriteByte(q) ==
    /\ pc[q] = "pipe_write"
    /\ pipes.written < pipes.body
    /\ ~PipeBlocked(pipes.stdin)
    /\ pipes' = [pipes EXCEPT !.stdin = @ + 1, !.written = @ + 1]
    /\ UNCHANGED <<pc, req, resp, child, procs, trace, logged, connMutex, connected, reads, arg, result, db,
                   disk, locals>>

\* write_all returns when the whole body is in the pipe; drop(stdin) follows.
PipeClose(q) ==
    /\ pc[q] = "pipe_write"
    /\ pipes.written = pipes.body
    /\ pipes' = [pipes EXCEPT !.closed = TRUE]
    /\ trace' = [trace EXCEPT ![q] = @ \o <<"write", "close">>]
    /\ pc' = [pc EXCEPT ![q] = "pipe_wait"]
    /\ UNCHANGED <<req, resp, child, procs, logged, connMutex, connected, reads, arg, result, db, disk, locals>>

\* wait_with_output: the handler reads the helper's output pipe.
PipeCollect(q) ==
    /\ pc[q] = "pipe_wait"
    /\ pipes.stdout > 0
    /\ pipes' = [pipes EXCEPT !.stdout = @ - 1, !.collected = @ + 1]
    /\ UNCHANGED <<pc, req, resp, child, procs, trace, logged, connMutex, connected, reads, arg, result, db,
                   disk, locals>>

\* wait_with_output returns: the helper has exited and its output is read.
PipeWaitDone(q) ==
    /\ pc[q] = "pipe_wait"
    /\ pipes.hstate = "exited"
    /\ pipes.stdout = 0
    /\ resp' = [resp EXCEPT ![q] =
            Ok(ResultType(req[q].endpoint), [i \in 1..pipes.collected |-> "o"])]
    /\ trace' = [trace EXCEPT ![q] = @ \o <<"wait">>]
    /\ pc' = [pc EXCEPT ![q] = "done"]
    /\ UNCHANGED <<req, child, procs, logged, connMutex, connected, reads, arg, result, pipes, db, disk, locals>>

\* The helper decides its next blocking call: a read of its input, a write of
\* one more byte of output, or, with its input at end and its output
\* written, its exit.
HelperChoose ==
    /\ pipes.hstate = "running"
    /\ pipes.hnext = "idle"
    /\ \/ /\ ~pipes.eof
          /\ pipes' = [pipes EXCEPT !.hnext = "read"]
       \/ /\ pipes.produced < pipes.total
          /\ pipes' = [pipes EXCEPT !.hnext = "write"]
       \/ /\ pipes.eof /\ pipes.produced = pipes.total
          /\ pipes' = [pipes EXCEPT !.hstate = "exited"]
    /\ UNCHANGED <<pc, req, resp, child, procs, trace, logged, connMutex, connected, reads, arg, result, db,
                   disk, locals>>

\* The helper's read returns: a byte, or end of input once the handler has
\* closed the pipe and it is empty.
HelperRead ==
    /\ pipes.hstate = "running"
    /\ pipes.hnext = "read"
    /\ \/ /\ pipes.stdin > 0
          /\ pipes' = [pipes EXCEPT !.stdin = @ - 1, !.consumed = @ + 1, !.hnext = "idle"]
       \/ /\ pipes.stdin = 0 /\ pipes.closed
          /\ pipes' = [pipes EXCEPT !.eof = TRUE, !.hnext = "idle"]
    /\ UNCHANGED <<pc, req, resp, child, procs, trace, logged, connMutex, connected, reads, arg, result, db,
                   disk, locals>>

\* The helper's write returns once there is room in its output pipe.
HelperWrite ==
    /\ pipes.hstate = "running"
    /\ pipes.hnext = "write"
    /\ ~PipeBlocked(pipes.stdout)
    /\ pipes' = [pipes EXCEPT !.stdout = @ + 1, !.produced = @ + 1, !.hnext = "idle"]
    /\ UNCHANGED <<pc, req, resp, child, procs, trace, logged, connMutex, connected, reads, arg, result, db,
                   disk, locals>>

\* The response is sent and the task takes its next request.
PipeFinish(q) ==
    /\ pc[q] = "done"
    /\ pipes.hstate = "exited"
    /\ Finish(q)
    /\ pipes' = NoPipes
    /\ UNCHANGED <<connMutex, connected, reads, arg, result, db, disk, locals>>

PipeNext ==
    \/ \E q \in Reqs, b \in 0..MaxPipeBody, o \in 0..MaxPipeOut : PipeSpawn(q, b, o)
    \/ \E q \in Reqs : PipeWriteByte(q)
    \/ \E q \in Reqs : PipeClose(q)
    \/ \E q \in Reqs : PipeCollect(q)
    \/ \E q \in Reqs : PipeWaitDone(q)
    \/ HelperChoose
    \/ HelperRead
    \/ HelperWrite
    \/ \E q \in Reqs : PipeFinish(q)

\* Every thread that can take a step takes one: handler and helper are
\* scheduled by the operating system.
SpecPipe == Init /\ [][PipeNext]_vars /\ WF_vars(PipeNext)

\* ------------------------------------ the review workflow (models/*.rs)

\* Rows a table may hold in the model.
MaxPullRequests == 2
MaxComments == 2

\* Ids of the users table: 1 is the seeded user, 2 a registered one.
UserIds == {1, 2}

\* The variables the model operations leave alone.
gatewayVars == <<req, resp, child, procs, trace, logged, connected, reads, arg, result, pipes>>

\* What an operation has returned: nothing yet, Ok(id) or Err(_).
NoRet == [returned |-> FALSE, ok |-> FALSE, id |-> 0]
OkRet(id) == [returned |-> TRUE, ok |-> TRUE, id |-> id]
ErrRet == [returned |-> TRUE, ok |-> FALSE, id |-> 0]

\* INSERT: the new row gets the next rowid, which last_insert_rowid() returns.
Insert(table, row) == Append(table, [row EXCEPT !.id = Len(table) + 1])
last_insert_rowid(table) == Len(table)

\* SELECT owner_id FROM repositories WHERE id = ?1.
OwnerOf(repository_id) == db.repositories[repository_id].owner_id

\* SELECT author_id FROM pull_requests WHERE id = ?1.
AuthorOf(pull_request_id) == db.pull_requests[pull_request_id].author_id

\* The database of a running server: user 1 has created the repository r1.
SeedDb ==
    [EmptyDb EXCEPT !.repositories = <<[id |-> 1, name |-> "r1", owner_id |-> 1]>>]

ModelsInit ==
    /\ pc = [q \in Reqs |-> "idle"]
    /\ req = [q \in Reqs |-> NoReq]
    /\ resp = [q \in Reqs |-> NoResp]
    /\ child = [q \in Reqs |-> NoChild]
    /\ procs = [p \in Pids |-> NoProc]
    /\ trace = [q \in Reqs |-> <<>>]
    /\ logged = [q \in Reqs |-> <<>>]
    /\ connMutex = "free"
    /\ connected = [q \in Reqs |-> TRUE]
    /\ reads = [q \in Reqs |-> <<>>]
    /\ arg = None
    /\ result = None
    /\ pipes = NoPipes
    /\ db = SeedDb
    /\ disk = {}
    /\ locals = [q \in Reqs |-> NoLocals]

\* The steps at which a thread calls conn.lock().
LockSteps ==
    {"pr_create_lock", "comment_create_lock", "notification_create_lock",
     "find_by_name_lock", "find_by_id_lock", "repo_name_lock", "update_status_lock",
     "repo_create_lock"}

\* The step that follows a lock taken on entry.
AfterLock(step) ==
    CASE step = "pr_create_lock" -> "pr_create_body"
      [] step = "comment_create_lock" -> "comment_create_body"
      [] step = "find_by_name_lock" -> "find_by_name_body"
      [] step = "find_by_id_lock" -> "find_by_id_body"
      [] step = "repo_name_lock" -> "repo_name_body"
      [] step = "update_status_lock" -> "update_status_body"
      [] step = "repo_create_lock" -> "repo_create_body"

\* pull_request.create(conn) is called for a repository the handler has found
\* and the authenticated user as the author.
PullRequestCreateCall(q, author_id, repository_id) ==
    /\ pc[q] = "idle"
    /\ Len(db.pull_requests) < MaxPullRequests
    /\ locals' = [locals EXCEPT ![q] =
                    [op |-> "PullRequest::create", author_id |-> author_id,
                     repository_id |-> repository_id, subject |-> 0,
                     notification_id |-> None, ret |-> NoRet]]
    /\ pc' = [pc EXCEPT ![q] = "pr_create_lock"]
    /\ UNCHANGED <<db, connMutex, disk>>
    /\ UNCHANGED gatewayVars

\* comment.create(conn) is called for a pull request the handler has found.
CommentCreateCall(q, author_id, pull_request_id) ==
    /\ pc[q] = "idle"
    /\ Len(db.comments) < MaxComments
    /\ locals' = [locals EXCEPT ![q] =
                    [op |-> "PullRequestComment::create", author_id |-> author_id,
                     repository_id |-> 0, subject |-> pull_request_id,
                     notification_id |-> None, ret |-> NoRet]]
    /\ pc' = [pc EXCEPT ![q] = "comment_create_lock"]
    /\ UNCHANGED <<db, connMutex, disk>>
    /\ UNCHANGED gatewayVars

\* let conn_guard = conn.lock().unwrap() on entry of an operation: the thread
\* waits while another thread holds the mutex, and panics in unwrap() when a
\* thread has panicked while holding it (the mutex is poisoned).
EntryLock(q) ==
    /\ pc[q] \in LockSteps \ {"notification_create_lock"}
    /\ connMutex \in {"free", "poisoned"}
    /\ IF connMutex = "free"
         THEN /\ connMutex' = q
              /\ pc' = [pc EXCEPT ![q] = AfterLock(pc[q])]
         ELSE /\ pc' = [pc EXCEPT ![q] = "panicked"]
              /\ UNCHANGED connMutex
    /\ UNCHANGED <<db, locals, disk>>
    /\ UNCHANGED gatewayVars

\* PullRequest::create under its guard: INSERT, last_insert_rowid, the owner of
\* the repository; the author being the owner, Ok(pr_id) and the guard is
\* dropped; otherwise the Notification is built and notification.create called
\* with the guard still alive.
PullRequestCreateBody(q) ==
    /\ pc[q] = "pr_create_body"
    /\ LET row == [id |-> 0, repository_id |-> locals[q].repository_id,
                   author_id |-> locals[q].author_id, status |-> "open"]
           pull_requests == Insert(db.pull_requests, row)
           pr_id == last_insert_rowid(pull_requests)
           owner_id == OwnerOf(locals[q].repository_id)
       IN /\ db' = [db EXCEPT !.pull_requests = pull_requests]
          /\ IF owner_id # locals[q].author_id
               THEN /\ locals' = [locals EXCEPT ![q].subject = pr_id]
                    /\ pc' = [pc EXCEPT ![q] = "notification_create_lock"]
                    /\ UNCHANGED connMutex
               ELSE /\ locals' = [locals EXCEPT ![q].subject = pr_id, ![q].ret = OkRet(pr_id)]
                    /\ pc' = [pc EXCEPT ![q] = "done"]
                    /\ connMutex' = "free"
    /\ UNCHANGED disk
    /\ UNCHANGED gatewayVars

\* PullRequestComment::create under its guard, in the same way: the
\* notification goes to the author of the pull request.
CommentCreateBody(q) ==
    /\ pc[q] = "comment_create_body"
    /\ LET row == [id |-> 0, pull_request_id |-> locals[q].subject,
                   author_id |-> locals[q].author_id]
           comments == Insert(db.comments, row)
           comment_id == last_insert_rowid(comments)
           pr_author_id == AuthorOf(locals[q].subject)
       IN /\ db' = [db EXCEPT !.comments = comments]
          /\ IF pr_author_id # locals[q].author_id
               THEN /\ locals' = [locals EXCEPT ![q].ret = [NoRet EXCEPT !.id = comment_id]]
                    /\ pc' = [pc EXCEPT ![q] = "notification_create_lock"]
                    /\ UNCHANGED connMutex
               ELSE /\ locals' = [locals EXCEPT ![q].ret = OkRet(comment_id)]
                    /\ pc' = [pc EXCEPT ![q] = "done"]
                    /\ connMutex' = "free"
    /\ UNCHANGED disk
    /\ UNCHANGED gatewayVars

\* The notification the caller has built.
NotificationOf(q) ==
    IF locals[q].op = "PullRequest::create"
      THEN [id |-> 0, notification_type |-> "pull_request",
            user_id |-> OwnerOf(locals[q].repository_id), is_read |-> FALSE]
      ELSE [id |-> 0, notification_type |-> "comment",
            user_id |-> AuthorOf(locals[q].subject), is_read |-> FALSE]

\* The id the caller returns once notification.create is back.
CreatedId(q) ==
    IF locals[q].op = "PullRequest::create" THEN locals[q].subject ELSE locals[q].ret.id

\* Notification::create, first statement conn.lock().unwrap(), called by the
\* two create operations. std::sync::Mutex::lock by the thread that holds the
\* mutex does not return: it blocks for ever or panics, which is left
\* unspecified; unwinding drops the caller's guard and poisons the mutex. With
\* the mutex free the row is inserted, the caller logs the outcome and returns
\* its id.
NotificationCreate(q) ==
    /\ pc[q] = "notification_create_lock"
    /\ connMutex \in {q, "free", "poisoned"}
    /\ IF connMutex = q
         THEN /\ \/ /\ pc' = [pc EXCEPT ![q] = "deadlocked"]
                    /\ UNCHANGED connMutex
                 \/ /\ pc' = [pc EXCEPT ![q] = "panicked"]
                    /\ connMutex' = "poisoned"
              /\ UNCHANGED <<db, locals>>
         ELSE IF connMutex = "free"
           THEN LET notifications == Insert(db.notifications, NotificationOf(q))
                IN /\ db' = [db EXCEPT !.notifications = notifications]
                   /\ locals' = [locals EXCEPT
                                   ![q].notification_id = Some(last_insert_rowid(notifications)),
                                   ![q].ret = OkRet(CreatedId(q))]
                   /\ pc' = [pc EXCEPT ![q] = "done"]
                   /\ UNCHANGED connMutex
           ELSE /\ pc' = [pc EXCEPT ![q] = "panicked"]
                /\ UNCHANGED <<db, locals, connMutex>>
    /\ UNCHANGED disk
    /\ UNCHANGED gatewayVars

\* The caller has its result, or the panic has unwound: the worker thread
\* takes its next request. A thread blocked in lock() takes none.
ModelReturn(q) ==
    /\ pc[q] \in {"done", "panicked"}
    /\ pc' = [pc EXCEPT ![q] = "idle"]
    /\ locals' = [locals EXCEPT ![q] = NoLocals]
    /\ UNCHANGED <<db, connMutex, disk>>
    /\ UNCHANGED gatewayVars

\* The steps of one worker thread.
ModelsStep(q) ==
    \/ \E author_id \in UserIds, repository_id \in 1..Len(db.repositories) :
          PullRequestCreateCall(q, author_id, repository_id)
    \/ \E author_id \in UserIds, pull_request_id \in 1..Len(db.pull_requests) :
          CommentCreateCall(q, author_id, pull_request_id)
    \/ EntryLock(q)
    \/ PullRequestCreateBody(q)
    \/ CommentCreateBody(q)
    \/ NotificationCreate(q)
    \/ ModelReturn(q)

ModelsNext == \E q \in Reqs : ModelsStep(q)

\* A thread that can keep running does: one that waits for the mutex gets it
\* when it is released again and again.
SpecModels == ModelsInit /\ [][ModelsNext]_vars /\ \A q \in Reqs : SF_vars(ModelsStep(q))

\* ------------------------- update_pull_request_status and PullRequest::merge

\* HttpResponse::<Status>().json(ApiResponse { .. }): the status code is what is
\* read of it.
ApiResponse(code) == [NoResp EXCEPT !.status = code]

\* PullRequestStatus::from_str(&status_req.status)
from_str(status) ==
    CASE status = "open" -> "open"
      [] status = "closed" -> "closed"
      [] status = "merged" -> "merged"
      [] OTHER -> "open"

\* repo.owner_id != user.id.unwrap()
NotOwner(repo, user_id) == repo.owner_id # user_id

\* Repository::find_by_name: the first row WHERE name = ?1, None without one.
find_by_name(name) ==
    LET rows == { i \in 1..Len(db.repositories) : db.repositories[i].name = name }
    IN  IF rows = {} THEN None
        ELSE Some(db.repositories[CHOOSE i \in rows : \A j \in rows : i <= j])

\* PullRequest::find_by_id: the row WHERE id = ?1, None without one.
find_by_id(id) ==
    IF id \in 1..Len(db.pull_requests) THEN Some(db.pull_requests[id]) ELSE None

\* format!("temp_merge_{}", id)
TempDir(id) == "temp_merge_" \o ToString(id)

\* The requests clients send: the user check_auth returns (None without valid
\* credentials), the repository of the URL, the pull request id of the URL and
\* the status of the JSON body.
StatusRequests ==
    { [user |-> u, repo_name |-> n, pr_id |-> i, status |-> s] :
        u \in {None} \cup { Some(id) : id \in UserIds },
        n \in {"r1", "r2", "nope"}, i \in 1..2, s \in {"merged", "closed"} }

\* The database of a running server: two users with a repository each, and in
\* each repository a pull request of its owner.
MergeDb ==
    [EmptyDb EXCEPT
       !.repositories = << [id |-> 1, name |-> "r1", owner_id |-> 1],
                           [id |-> 2, name |-> "r2", owner_id |-> 2] >>,
       !.pull_requests = << [id |-> 1, repository_id |-> 1, author_id |-> 1, status |-> "open"],
                            [id |-> 2, repository_id |-> 2, author_id |-> 2, status |-> "open"] >>]

MergeInit ==
    /\ pc = [q \in Reqs |-> "idle"]
    /\ req = [q \in Reqs |-> NoReq]
    /\ resp = [q \in Reqs |-> NoResp]
    /\ child = [q \in Reqs |-> NoChild]
    /\ procs = [p \in Pids |-> NoProc]
    /\ trace = [q \in Reqs |-> <<>>]
    /\ logged = [q \in Reqs |-> <<>>]
    /\ connMutex = "free"
    /\ connected = [q \in Reqs |-> TRUE]
    /\ reads = [q \in Reqs |-> <<>>]
    /\ arg = None
    /\ result = None
    /\ pipes = NoPipes
    /\ db = MergeDb
    /\ disk = {}
    /\ locals = [q \in Reqs |-> NoLocals]

\* The variables the merge workflow leaves alone.
protocolVars == <<req, child, procs, logged, connected, reads, arg, result, pipes>>

\* The steps at which merge runs a git command in, or removes, its directory.
GitSteps == {"clone", "checkout", "merge", "push", "remove_dir_all"}

\* A directory of the given path is on disk.
Exists(path) == \E d \in disk : d.path = path

\* Another thread is at a git command that runs inside the same directory.
SharedWith(q, path) ==
    \E o \in Reqs \ {q} : pc[o] \in {"checkout", "merge", "push"} /\ locals[o].temp_dir = path

\* std::fs::remove_dir_all(&temp_dir): the disks it may leave. The directory is
\* gone afterwards, unless another process writes into it during the removal:
\* then the call may return Err with the directory still there.
remove_dir_all(q, path) ==
    { { d \in disk : d.path # path } }
      \cup (IF Exists(path) /\ SharedWith(q, path) THEN {disk} ELSE {})

\* Command::status() of a git command: it could not be started (Err), or it
\* ran and exited with zero or not.
Outcomes == {"spawn_failed", "zero", "nonzero"}

\* update_pull_request_status up to the first database call: check_auth.
StatusCall(q, rq) ==
    /\ pc[q] = "idle"
    /\ locals' = [locals EXCEPT ![q] =
                    [op |-> "update_pull_request_status", user |-> rq.user,
                     repo_name |-> rq.repo_name, pr_id |-> rq.pr_id, status |-> rq.status,
                     stage |-> "handler", repository_id |-> 0, temp_dir |-> "",
                     git_ok |-> TRUE, ret |-> NoRet]]
    /\ IF rq.user = None
         THEN /\ resp' = [resp EXCEPT ![q] = ApiResponse(401)]
              /\ pc' = [pc EXCEPT ![q] = "done"]
         ELSE /\ pc' = [pc EXCEPT ![q] = "find_by_name_lock"]
              /\ UNCHANGED resp
    /\ UNCHANGED <<db, connMutex, disk, trace>>
    /\ UNCHANGED protocolVars

\* Repository::find_by_name under its guard and the owner check of the handler.
FindByNameBody(q) ==
    /\ pc[q] = "find_by_name_body"
    /\ connMutex' = "free"
    /\ LET found == find_by_name(locals[q].repo_name)
       IN  IF found = None
             THEN /\ resp' = [resp EXCEPT ![q] = ApiResponse(404)]
                  /\ pc' = [pc EXCEPT ![q] = "done"]
             ELSE IF NotOwner(found[1], locals[q].user[1])
               THEN /\ resp' = [resp EXCEPT ![q] = ApiResponse(403)]
                    /\ pc' = [pc EXCEPT ![q] = "done"]
               ELSE /\ pc' = [pc EXCEPT ![q] = "find_by_id_lock"]
                    /\ UNCHANGED resp
    /\ UNCHANGED <<db, disk, trace, locals>>
    /\ UNCHANGED protocolVars

\* PullRequest::find_by_id under its guard. Called by the handler: no row is
\* 404; status merged goes on to PullRequest::merge, any other to
\* update_status. Called by merge: no row is Err(QueryReturnedNoRows), which
\* the handler answers 500.
FindByIdBody(q) ==
    /\ pc[q] = "find_by_id_body"
    /\ connMutex' = "free"
    /\ LET found == find_by_id(locals[q].pr_id)
       IN  IF locals[q].stage = "handler"
             THEN IF found = None
                    THEN /\ resp' = [resp EXCEPT ![q] = ApiResponse(404)]
                         /\ pc' = [pc EXCEPT ![q] = "done"]
                         /\ UNCHANGED locals
                    ELSE IF from_str(locals[q].status) = "merged"
                      THEN /\ locals' = [locals EXCEPT ![q].stage = "merge"]
                           /\ pc' = [pc EXCEPT ![q] = "find_by_id_lock"]
                           /\ UNCHANGED resp
                      ELSE /\ pc' = [pc EXCEPT ![q] = "update_status_lock"]
                           /\ UNCHANGED <<resp, locals>>
             ELSE IF found = None
                    THEN /\ locals' = [locals EXCEPT ![q].ret = ErrRet]
                         /\ resp' = [resp EXCEPT ![q] = ApiResponse(500)]
                         /\ pc' = [pc EXCEPT ![q] = "done"]
                    ELSE /\ locals' = [locals EXCEPT ![q].repository_id = found[1].repository_id]
                         /\ pc' = [pc EXCEPT ![q] = "repo_name_lock"]
                         /\ UNCHANGED resp
    /\ UNCHANGED <<db, disk, trace>>
    /\ UNCHANGED protocolVars

\* merge: SELECT name FROM repositories WHERE id = ?1 in its own scope, then
\* repo_path and temp_dir.
RepoNameBody(q) ==
    /\ pc[q] = "repo_name_body"
    /\ connMutex' = "free"
    /\ locals' = [locals EXCEPT ![q].temp_dir = TempDir(locals[q].pr_id)]
    /\ pc' = [pc EXCEPT ![q] = "clone"]
    /\ UNCHANGED <<db, disk, trace, resp>>
    /\ UNCHANGED protocolVars

\* git clone repo_path temp_dir. Only Err (git could not be started) is
\* tested: merge returns Err. git creates the directory when it exits zero and
\* refuses a destination that exists.
Clone(q, outcome) ==
    /\ pc[q] = "clone"
    /\ outcome = "zero" => ~Exists(locals[q].temp_dir)
    /\ IF outcome = "spawn_failed"
         THEN /\ locals' = [locals EXCEPT ![q].ret = ErrRet, ![q].git_ok = FALSE]
              /\ resp' = [resp EXCEPT ![q] = ApiResponse(500)]
              /\ pc' = [pc EXCEPT ![q] = "done"]
              /\ UNCHANGED <<disk, trace>>
         ELSE /\ locals' = [locals EXCEPT ![q].git_ok = (outcome = "zero")]
              /\ trace' = [trace EXCEPT ![q] = Append(@, "clone")]
              /\ disk' = IF outcome = "zero"
                           THEN disk \cup {[path |-> locals[q].temp_dir, creator |-> q]}
                           ELSE disk
              /\ pc' = [pc EXCEPT ![q] = "checkout"]
              /\ UNCHANGED resp
    /\ UNCHANGED <<db, connMutex>>
    /\ UNCHANGED protocolVars

\* The step after a git command run in temp_dir.
AfterGit(step) ==
    CASE step = "checkout" -> "merge"
      [] step = "merge" -> "push"
      [] step = "push" -> "remove_dir_all"

\* git -C temp_dir checkout target_branch, git -C temp_dir merge source_branch,
\* git -C temp_dir push origin target_branch. Only Err is tested: the
\* directory is removed, the outcome of the removal dropped, and merge returns
\* Err. git exits non-zero without the directory.
GitInTempDir(q, outcome) ==
    /\ pc[q] \in {"checkout", "merge", "push"}
    /\ outcome = "zero" => Exists(locals[q].temp_dir)
    /\ IF outcome = "spawn_failed"
         THEN /\ locals' = [locals EXCEPT ![q].ret = ErrRet, ![q].git_ok = FALSE]
              /\ disk' \in remove_dir_all(q, locals[q].temp_dir)
              /\ resp' = [resp EXCEPT ![q] = ApiResponse(500)]
              /\ pc' = [pc EXCEPT ![q] = "done"]
              /\ UNCHANGED trace
         ELSE /\ locals' = [locals EXCEPT ![q].git_ok = (@ /\ outcome = "zero")]
              /\ trace' = [trace EXCEPT ![q] = Append(@, pc[q])]
              /\ pc' = [pc EXCEPT ![q] = AfterGit(pc[q])]
              /\ UNCHANGED <<disk, resp>>
    /\ UNCHANGED <<db, connMutex>>
    /\ UNCHANGED protocolVars

\* The removal at the end of merge: an error is logged and merge goes on to
\* update_status.
RemoveTempDir(q) ==
    /\ pc[q] = "remove_dir_all"
    /\ disk' \in remove_dir_all(q, locals[q].temp_dir)
    /\ pc' = [pc EXCEPT ![q] = "update_status_lock"]
    /\ UNCHANGED <<db, connMutex, locals, trace, resp>>
    /\ UNCHANGED protocolVars

\* PullRequest::update_status under its guard: called by merge with Merged,
\* by the handler with the status of the request; Ok is answered 200.
UpdateStatusBody(q) ==
    /\ pc[q] = "update_status_body"
    /\ connMutex' = "free"
    /\ LET id == locals[q].pr_id
           status == IF locals[q].stage = "merge" THEN "merged" ELSE from_str(locals[q].status)
       IN  db' = [db EXCEPT !.pull_requests[id].status = status]
    /\ locals' = [locals EXCEPT ![q].ret = OkRet(0)]
    /\ trace' = [trace EXCEPT ![q] = Append(@, "update_status")]
    /\ resp' = [resp EXCEPT ![q] = ApiResponse(200)]
    /\ pc' = [pc EXCEPT ![q] = "done"]
    /\ UNCHANGED disk
    /\ UNCHANGED protocolVars

\* The response is sent and the worker thread takes its next request.
StatusReturn(q) ==
    /\ pc[q] = "done"
    /\ pc' = [pc EXCEPT ![q] = "idle"]
    /\ locals' = [locals EXCEPT ![q] = NoLocals]
    /\ resp' = [resp EXCEPT ![q] = NoResp]
    /\ trace' = [trace EXCEPT ![q] = <<>>]
    /\ UNCHANGED <<db, connMutex, disk>>
    /\ UNCHANGED protocolVars

MergeNext ==
    \/ \E q \in Reqs, rq \in StatusRequests : StatusCall(q, rq)
    \/ \E q \in Reqs : EntryLock(q)
    \/ \E q \in Reqs : FindByNameBody(q)
    \/ \E q \in Reqs : FindByIdBody(q)
    \/ \E q \in Reqs : RepoNameBody(q)
    \/ \E q \in Reqs, outcome \in Outcomes : Clone(q, outcome)
    \/ \E q \in Reqs, outcome \in Outcomes : GitInTempDir(q, outcome)
    \/ \E q \in Reqs : RemoveTempDir(q)
    \/ \E q \in Reqs : UpdateStatusBody(q)
    \/ \E q \in Reqs : StatusReturn(q)

SpecMerge == MergeInit /\ [][MergeNext]_vars

\* ------------------------------------ create_repo and Repository::create

\* Rows the repositories table may hold in the model.
MaxRepositories == 3

\* Names a client may give a new repository.
NewRepoNames == {"r1", "r2"}

\* UNIQUE (name, owner_id): a row of the same name and owner is there.
UniqueViolated(name, owner_id) ==
    \E i \in 1..Len(db.repositories) :
        db.repositories[i].name = name /\ db.repositories[i].owner_id = owner_id

\* create_repo up to repo.create(conn): check_auth and the Repository value.
CreateRepoCall(q, user, name) ==
    /\ pc[q] = "idle"
    /\ Len(db.repositories) < MaxRepositories
    /\ locals' = [locals EXCEPT ![q] =
                    [op |-> "create_repo", user |-> user, name |-> name, ret |-> NoRet]]
    /\ IF user = None
         THEN /\ resp' = [resp EXCEPT ![q] = ApiResponse(401)]
              /\ pc' = [pc EXCEPT ![q] = "done"]
         ELSE /\ pc' = [pc EXCEPT ![q] = "repo_create_lock"]
              /\ UNCHANGED resp
    /\ UNCHANGED <<db, connMutex, disk, trace>>
    /\ UNCHANGED protocolVars

\* Repository::create under its guard: the INSERT fails on a row of the same
\* name and owner (the ? returns Err, answered 500); otherwise the row is
\* stored and the guard dropped.
RepositoryCreateInsert(q) ==
    /\ pc[q] = "repo_create_body"
    /\ connMutex' = "free"
    /\ IF UniqueViolated(locals[q].name, locals[q].user[1])
         THEN /\ locals' = [locals EXCEPT ![q].ret = ErrRet]
              /\ resp' = [resp EXCEPT ![q] = ApiResponse(500)]
              /\ pc' = [pc EXCEPT ![q] = "done"]
              /\ UNCHANGED db
         ELSE LET row == [id |-> 0, name |-> locals[q].name, owner_id |-> locals[q].user[1]]
                  repositories == Insert(db.repositories, row)
              IN  /\ db' = [db EXCEPT !.repositories = repositories]
                  /\ locals' = [locals EXCEPT ![q].ret =
                                  [NoRet EXCEPT !.id = last_insert_rowid(repositories)]]
                  /\ pc' = [pc EXCEPT ![q] = "repo_create_disk"]
                  /\ UNCHANGED resp
    /\ UNCHANGED <<disk, trace>>
    /\ UNCHANGED protocolVars

\* Repository::create on disk: without a directory of the path it is created
\* and git init --bare run in it, a failure being Err; with one, nothing is
\* done. Then Ok(repo_id).
RepositoryCreateOnDisk(q, outcome) ==
    /\ pc[q] = "repo_create_disk"
    /\ LET path == RepoPath(locals[q].name)
       IN  IF ~Exists(path)
             THEN /\ disk' = disk \cup {[path |-> path, creator |-> q]}
                  /\ trace' = [trace EXCEPT ![q] = Append(@, "init")]
                  /\ IF outcome = "zero"
                       THEN /\ locals' = [locals EXCEPT ![q].ret = OkRet(@.id)]
                            /\ pc' = [pc EXCEPT ![q] = "handler_init"]
                            /\ UNCHANGED resp
                       ELSE /\ locals' = [locals EXCEPT ![q].ret = ErrRet]
                            /\ resp' = [resp EXCEPT ![q] = ApiResponse(500)]
                            /\ pc' = [pc EXCEPT ![q] = "done"]
             ELSE /\ locals' = [locals EXCEPT ![q].ret = OkRet(@.id)]
                  /\ pc' = [pc EXCEPT ![q] = "handler_init"]
                  /\ UNCHANGED <<disk, trace, resp>>
    /\ UNCHANGED <<db, connMutex>>
    /\ UNCHANGED protocolVars

\* create_repo after Ok: git init --bare on the same path once more, 200 when
\* it exits zero and 500 otherwise.
HandlerInit(q, outcome) ==
    /\ pc[q] = "handler_init"
    /\ trace' = [trace EXCEPT ![q] = Append(@, "init")]
    /\ resp' = [resp EXCEPT ![q] = ApiResponse(IF outcome = "zero" THEN 200 ELSE 500)]
    /\ pc' = [pc EXCEPT ![q] = "done"]
    /\ UNCHANGED <<db, connMutex, disk, locals>>
    /\ UNCHANGED protocolVars

RepoNext ==
    \/ \E q \in Reqs, user \in {None} \cup { Some(id) : id \in UserIds }, name \in NewRepoNames :
          CreateRepoCall(q, user, name)
    \/ \E q \in Reqs : EntryLock(q)
    \/ \E q \in Reqs : RepositoryCreateInsert(q)
    \/ \E q \in Reqs, outcome \in {"zero", "nonzero"} : RepositoryCreateOnDisk(q, outcome)
    \/ \E q \in Reqs, outcome \in {"zero", "nonzero"} : HandlerInit(q, outcome)
    \/ \E q \in Reqs : StatusReturn(q)

SpecRepo == Init /\ [][RepoNext]_vars

\* ----------------------------------------------- check_auth on its own

\* What may precede the payload of an Authorization header.
Schemes ==
    { BasicPrefix,
      BasicPrefix \o BasicPrefix,
      <<"B","a","s","i","c">>,
      <<"b","a","s","i","c"," ">>,
      <<"B","e","a","r","e","r"," ">>,
      <<>> }

\* Payloads: a:p, a:q, b:p:q, a (no separator), a: , :p, a:pa:p, the byte
\* ff, the bytes c3 28, e-acute:p, a character outside the alphabet, a
\* missing padding, a space inside, nothing.
Payloads ==
    { <<"Y","T","p","w">>,
      <<"Y","T","p","x">>,
      <<"Y","j","p","w","O","n","E","=">>,
      <<"Y","Q","=","=">>,
      <<"Y","T","o","=">>,
      <<"O","n","A","=">>,
      <<"Y","T","p","w","Y","T","p","w">>,
      <<"/","w","=","=">>,
      <<"w","y","g","=">>,
      <<"w","6","k","6","c","A","=","=">>,
      <<"Y","T","p","!">>,
      <<"Y","T","p">>,
      <<"Y","T"," ","p","w">>,
      <<>> }

\* The Authorization header values check_auth is applied to (None: no header).
AuthInputs == {None} \cup { Some(s \o p) : s \in Schemes, p \in Payloads }

AuthInit ==
    /\ pc = [q \in Reqs |-> "idle"]
    /\ req = [q \in Reqs |-> NoReq]
    /\ resp = [q \in Reqs |-> NoResp]
    /\ child = [q \in Reqs |-> NoChild]
    /\ procs = [p \in Pids |-> NoProc]
    /\ trace = [q \in Reqs |-> <<>>]
    /\ logged = [q \in Reqs |-> <<>>]
    /\ connMutex = "free"
    /\ connected = [q \in Reqs |-> TRUE]
    /\ reads = [q \in Reqs |-> <<>>]
    /\ arg \in AuthInputs
    /\ result = None
    /\ pipes = NoPipes
    /\ db = EmptyDb
    /\ disk = {}
    /\ locals = [q \in Reqs |-> NoLocals]

\* One call of check_auth.
ApplyCheckAuth ==
    /\ result = None
    /\ result' = Some(check_auth(arg))
    /\ UNCHANGED <<pc, req, resp, child, procs, trace, logged, connMutex, connected, reads, arg, pipes, db, disk, locals>>

AuthNext == ApplyCheckAuth

SpecAuth == AuthInit /\ [][AuthNext]_vars

\* The payload of an HTTP Basic header: what follows the scheme name and the
\* one space after it.
BasicPayload(h) == SubSeq(h, Len(BasicPrefix) + 1, Len(h))

\* The credentials a header carries according to the Basic scheme: Some(pair)
\* when the payload is base64 of UTF-8 text with a ':', else None.
BasicCredentials(h) ==
    IF ~StartsWith(h, BasicPrefix) THEN None
    ELSE LET bytes == Base64Decode(BasicPayload(h))
         IN  IF ~IsSome(bytes) THEN None
             ELSE IF ~Utf8Valid(Unwrap(bytes)) THEN None
             ELSE IF ~\E i \in 1..Len(Unwrap(bytes)) : Unwrap(bytes)[i] = Colon THEN None
             ELSE LET b == Unwrap(bytes)
                      i == CHOOSE k \in 1..Len(b) :
                              b[k] = Colon /\ \A j \in 1..(k - 1) : b[j] # Colon
                  IN  Some([username |-> SubSeq(b, 1, i - 1), password |-> SubSeq(b, i + 1, Len(b))])

\* C14: check_auth returns an identity only for an HTTP Basic header whose
\* base64 payload decodes to UTF-8 "username:password" (split at the first
\* ':') that the identity store verifies, and then that identity; a missing
\* header, another scheme, malformed base64, a non-UTF-8 payload, a missing
\* separator and a pair the store rejects all give None.
C14_AuthGate ==
    result # None =>
        LET creds == IF IsSome(arg) THEN BasicCredentials(Unwrap(arg)) ELSE None
        IN  Unwrap(result) =
                IF IsSome(creds) /\ Unwrap(creds) \in Users THEN creds ELSE None

\* --------------------------------- the framing of handle_info_refs on its own

\* Lengths of the service string: short ones, and the ones around the length
\* at which the header with its prefix passes 0xFFFF bytes.
ServiceLengths == (0..30) \cup (65500..65540)

\* A service string of n characters.
ServiceOfLength(n) == [i \in 1..n |-> "a"]

FrameInit ==
    /\ pc = [q \in Reqs |-> "idle"]
    /\ req = [q \in Reqs |-> NoReq]
    /\ resp = [q \in Reqs |-> NoResp]
    /\ child = [q \in Reqs |-> NoChild]
    /\ procs = [p \in Pids |-> NoProc]
    /\ trace = [q \in Reqs |-> <<>>]
    /\ logged = [q \in Reqs |-> <<>>]
    /\ connMutex = "free"
    /\ connected = [q \in Reqs |-> TRUE]
    /\ reads = [q \in Reqs |-> <<>>]
    /\ arg \in ServiceLengths
    /\ result = None
    /\ pipes = NoPipes
    /\ db = EmptyDb
    /\ disk = {}
    /\ locals = [q \in Reqs |-> NoLocals]

\* let service_header = format!("# service={}\n", service);
\* let header_length = service_header.len() + 4;
\* response.extend(format!("{:04x}", header_length).as_bytes());
\* result holds the prefix written and the length of the header it precedes.
ApplyFraming ==
    /\ result = None
    /\ LET service_header == ServiceHeader(ServiceOfLength(arg))
           header_length == Len(service_header) + 4
       IN  result' = Some([prefix |-> FormatHex04(header_length),
                           payload_len |-> Len(service_header)])
    /\ UNCHANGED <<pc, req, resp, child, procs, trace, logged, connMutex, connected, reads, arg, pipes, db, disk, locals>>

FrameNext == ApplyFraming

SpecFrame == FrameInit /\ [][FrameNext]_vars

\* The largest length a four-digit prefix can state (0xFFFF).
MaxPktLen == 65535

\* C18: the framing layer never emits a prefix that is not exactly four hex
\* digits: a header whose length plus 4 is above 0xFFFF is refused (nothing is
\* emitted for it) instead of getting a truncated or a wider prefix.
C18_PrefixIsFourDigits ==
    result # None =>
        LET prefix == Unwrap(result).prefix
            len == Unwrap(result).payload_len + 4
        IN  /\ len <= MaxPktLen => Len(prefix) = 4
            /\ len > MaxPktLen => prefix = <<>>
            /\ \A i \in 1..Len(prefix) : prefix[i] \in HexDigitChars

\* ------------------------------------------------ static endpoints: claims

IsCatalog(q) == req[q].endpoint = "objects/info/packs"
IsPack(q) == req[q].endpoint = "objects/pack"
IsTextFile(q) == req[q].endpoint = "file"
\* The file a catalog or pack request names, as the operating system sees it.
NamedFile(q) ==
    IF IsCatalog(q) THEN <<"repositories", req[q].repo \o ".git", "objects", "info", "packs">>
    ELSE IF req[q].file = ".." THEN <<"repositories", req[q].repo \o ".git", "objects">>
    ELSE <<"repositories", req[q].repo \o ".git", "objects", "pack", req[q].file>>
ExpectedType(q) == IF IsCatalog(q) THEN <<"text/plain">> ELSE <<"application/x-git-pack">>

\* C11: the pack catalog and pack file endpoints answer a file that can be
\* read with 200 and exactly its bytes, and every file that cannot be read
\* (missing, unreadable, a directory) with 404 and an empty body, the same
\* response whatever the cause.
C11_ReadOr404 ==
    \A q \in Reqs :
        (pc[q] = "done" /\ (IsCatalog(q) \/ IsPack(q))) =>
            IF NamedFile(q) \in ReadableFiles
            THEN /\ resp[q].status = 200
                 /\ resp[q].body = FileContent(NamedFile(q))
                 /\ resp[q].contentType = ExpectedType(q)
            ELSE resp[q] = [status |-> 404, wwwAuth |-> "", contentType |-> <<>>, body |-> <<>>]

\* Two finished pack requests, one for an unreadable file and one for a
\* directory, with the same response.
C11_Witness ==
    /\ pc["q1"] = "done" /\ IsPack("q1") /\ NamedFile("q1") \in UnreadableFiles
    /\ pc["q2"] = "done" /\ IsPack("q2") /\ NamedFile("q2") \in Directories
    /\ resp["q1"] = resp["q2"]


\* C12: GET file/{path} answers 200 with the helper's output as the body
\* exactly when git show exited zero; a non-zero exit is answered 404 with an
\* empty body, so nothing of the helper's output or error text is returned.
C12_ShowOr404 ==
    \A q \in Reqs :
        (pc[q] = "done" /\ IsTextFile(q)) =>
            LET ran == child[q] # NoChild
                zero == ran /\ procs[child[q]].code = 0
            IN  /\ resp[q].status = 200 <=> zero
                /\ zero => /\ resp[q].body = procs[child[q]].out
                           /\ resp[q].contentType = <<"text/plain">>
                /\ ~zero => /\ resp[q].status = 404
                            /\ resp[q].body = <<>>
                            /\ resp[q].contentType = <<>>

\* One request whose git show failed after writing output and error text, and
\* one whose git show succeeded with output.
C12_Witness ==
    /\ pc["q1"] = "done" /\ IsTextFile("q1") /\ child["q1"] # NoChild
    /\ procs[child["q1"]].code # 0
    /\ procs[child["q1"]].out # <<>> /\ procs[child["q1"]].err # <<>>
    /\ resp["q1"].status = 404
    /\ pc["q2"] = "done" /\ IsTextFile("q2") /\ child["q2"] # NoChild
    /\ procs[child["q2"]].code = 0 /\ procs[child["q2"]].out # <<>>
    /\ resp["q2"].status = 200

\* The directory of the repository a request names.
RepoDir(q) == <<"repositories", req[q].repo \o ".git">>

\* C13: whatever the untrusted segments are, every path a static endpoint
\* reads lies inside repositories/<repo>.git, and a traversal segment has been
\* rejected or normalized away before the read: no path handed to fs::read
\* holds a ".." or starts at the root.
C13_NoTraversal ==
    \A q \in Reqs : \A i \in 1..Len(reads[q]) :
        LET path == reads[q][i]
        IN  /\ StartsWith(Resolve(path), RepoDir(q))
            /\ \A k \in 1..Len(path) : path[k] \notin {"..", "/"}

\* A request whose Authorization header the auth gate does not accept.
FailsAuthentication(q) == ~IsSome(check_auth(req[q].auth))

\* C15: all Git operations require Basic authentication: no endpoint under
\* /git/, the pack catalog, the pack files and file/{path} included, returns
\* repository content to a request that fails authentication.
C15_AllGitOperationsGated ==
    \A q \in Reqs :
        (pc[q] = "done" /\ FailsAuthentication(q)) =>
            resp[q].status # 200 /\ resp[q].body = <<>>

\* What the helper of a file/{path} request did (nothing: it never started).
ShowOutcome(q) ==
    IF child[q] = NoChild THEN [started |-> FALSE, code |-> 0, out |-> <<>>]
    ELSE [started |-> TRUE, code |-> procs[child[q]].code, out |-> procs[child[q]].out]

\* Two requests that differ at most in their Authorization header and, for
\* file/{path}, met the same helper outcome.
SameButAuth(q1, q2) ==
    /\ req[q1].endpoint = req[q2].endpoint
    /\ req[q1].repo = req[q2].repo
    /\ req[q1].file = req[q2].file
    /\ ShowOutcome(q1) = ShowOutcome(q2)

FixedContentTypes ==
    { <<"application/x-">> \o GitUploadPack \o <<"-advertisement">>,
      <<"application/x-">> \o GitReceivePack \o <<"-advertisement">>,
      <<"application/x-", "git-upload-pack", "-result">>,
      <<"application/x-", "git-receive-pack", "-result">>,
      <<"application/x-git-pack">>,
      <<"text/plain">> }

\* C17: every 200 response carries one of the six fixed content types; no
\* request makes the gateway emit another one.
C17_FixedContentTypes ==
    \A q \in Reqs : resp[q].status = 200 => resp[q].contentType \in FixedContentTypes

\* The steps of a handler that start, feed or await a helper.
HelperStages == {"ir_output", "spawn", "write", "close", "wait"}

\* C19: the gateway holds no lock while a helper is spawned, written to or
\* awaited, in particular not the identity store's connection mutex, for two
\* requests against distinct repositories as for two against the same one:
\* a task at a helper step does not hold the mutex, and its spawn, its write
\* and its close can be taken whatever the other task is doing.
C19_NoLockAcrossHelper ==
    \A q \in Reqs :
        /\ pc[q] \in HelperStages => connMutex # q
        /\ pc[q] = "spawn" => ENABLED Spawn(q)
        /\ pc[q] = "write" => ENABLED Write(q)
        /\ pc[q] = "close" => ENABLED Close(q)

\* q1 awaits a running helper of r1 while q2 is inside User::authenticate
\* with the mutex for a request against nope.
C19_Witness ==
    /\ pc["q1"] = "wait" /\ procs[child["q1"]].state = "running"
    /\ pc["q2"] = "auth_locked" /\ connMutex = "q2"
    /\ req["q1"].repo = "r1" /\ req["q2"].repo = "nope"

\* C20: when the client disconnects while its transfer request is handled,
\* the helper is killed: once the handler has taken a step after the
\* disconnect, the request's helper is no longer running.
C20_DisconnectKillsHelper ==
    \A q \in Reqs :
        (/\ ~connected[q]
         /\ child[q] # NoChild
         /\ trace[q][Len(trace[q])] # "disconnect") =>
            procs[child[q]].state # "running"

\* C21: on the protocol endpoints authentication comes first: a request the
\* auth gate rejects is answered 401 whatever its service parameter (missing,
\* unsupported) and whatever its repository (absent), with no helper step
\* taken; so a 400 is only ever given to an authenticated request.
C21_AuthenticationFirst ==
    \A q \in Reqs :
        /\ (IsInfoRefs(q) /\ FailsAuthentication(q) /\ Responded(q)) =>
                resp[q].status = 401 /\ trace[q] = <<>>
        /\ (IsPost(q) /\ FailsAuthentication(q) /\ Responded(q)) =>
                resp[q].status = 401 /\ trace[q] = <<>>
        /\ resp[q].status = 400 => ~FailsAuthentication(q)

\* An info/refs request without credentials and without a service parameter,
\* for a repository that does not exist, answered 401; and an authenticated
\* one without a service parameter answered 400.
C21_Witness ==
    /\ IsInfoRefs("q1") /\ req["q1"].auth = None /\ ~HasServiceParam("q1")
    /\ req["q1"].repo = "nope" /\ resp["q1"].status = 401
    /\ IsInfoRefs("q2") /\ Authenticated("q2") /\ ~HasServiceParam("q2")
    /\ resp["q2"].status = 400

\* The repository directory a helper command line names.
TargetOf(argv) ==
    IF argv[2] = "--git-dir" THEN [dir |-> <<>>, gitdir |-> argv[3]]
    ELSE [dir |-> argv[4], gitdir |-> ""]
\* The command line of a helper names repositories/<name>.git.
Targets(argv, name) ==
    TargetOf(argv) \in { [dir |-> <<"repositories", name \o ".git">>, gitdir |-> ""],
                         [dir |-> <<>>, gitdir |-> "repositories/" \o name \o ".git"] }
\* The one helper command line that changes a repository.
Modifies(argv) == argv[2] = "receive-pack" /\ argv[3] = "--stateless-rpc"
AllRepoNames == RepoNames \cup StaticRepoNames

\* C22: every helper run and every file read made for a request that names
\* repository N targets repositories/N.git or a file below it and no other
\* repository's directory, and a GET request runs no helper that modifies a
\* repository.
C22_OnlyNamedRepository ==
    \A q \in Reqs :
        /\ \A p \in Pids :
               procs[p].owner = q =>
                   /\ Targets(procs[p].argv, req[q].repo)
                   /\ \A m \in AllRepoNames \ {req[q].repo} : ~Targets(procs[p].argv, m)
                   /\ ~IsPost(q) => ~Modifies(procs[p].argv)
        /\ \A i \in 1..Len(reads[q]) :
               /\ StartsWith(Resolve(reads[q][i]), RepoDir(q))
               /\ \A m \in AllRepoNames \ {req[q].repo} :
                      ~StartsWith(Resolve(reads[q][i]), <<"repositories", m \o ".git">>)

\* A push to r1 whose helper runs while a pack file of r2, named "..", has
\* been read for the other task.
C22_Witness ==
    /\ req["q1"].endpoint = "git-receive-pack" /\ req["q1"].repo = "r1"
    /\ child["q1"] # NoChild /\ procs[child["q1"]].state = "running"
    /\ Modifies(procs[child["q1"]].argv)
    /\ IsPack("q2") /\ req["q2"].repo = "r2" /\ req["q2"].file = ".."
    /\ Len(reads["q2"]) = 1

\* C23: every authenticated POST transfer request eventually gets its
\* response, whatever the helper does before it has its whole input, as long
\* as the helper terminates once its input is closed and its output is read.
C23_EventuallyResponds ==
    \A q \in Reqs : (pc[q] = "pipe_write") ~> Responded(q)

\* C24: PullRequest::create returns the id of the new pull request in every
\* case; with an author who is not the owner of the repository the call has
\* stored one unread notification of type pull_request addressed to the owner,
\* with the owner as the author it has stored none.
C24_CreateReturnsIdAndNotifies ==
    /\ \A q \in Reqs :
          (pc[q] = "pr_create_lock") ~> (pc[q] = "done" /\ locals[q].ret.ok)
    /\ [](\A q \in Reqs :
            (pc[q] = "done" /\ locals[q].op = "PullRequest::create") =>
               /\ locals[q].ret = OkRet(locals[q].subject)
               /\ db.pull_requests[locals[q].subject].author_id = locals[q].author_id
               /\ IF OwnerOf(locals[q].repository_id) # locals[q].author_id
                    THEN /\ locals[q].notification_id # None
                         /\ db.notifications[locals[q].notification_id[1]] =
                               [id |-> locals[q].notification_id[1],
                                notification_type |-> "pull_request",
                                user_id |-> OwnerOf(locals[q].repository_id),
                                is_read |-> FALSE]
                    ELSE locals[q].notification_id = None)

\* C25: no model operation asks for the connection mutex while its own thread
\* holds it.
C25_NoLockWhileHeld ==
    \A q \in Reqs : pc[q] \in LockSteps => connMutex # q


\* A call of PullRequest::merge by thread q has returned.
MergeReturned(q) == pc[q] = "done" /\ locals[q].stage = "merge"

\* Thread q has run the git command, or the database write, named e.
Ran(q, e) == \E i \in 1..Len(trace[q]) : trace[q][i] = e

\* C26: PullRequest::merge returns Ok and sets the status to merged only when
\* clone, checkout, merge and push each exited with status zero; when one of
\* them did not, it returns an error and has not written the status.
C26_MergedOnlyAfterCleanSteps ==
    \A q \in Reqs :
        MergeReturned(q) =>
           /\ (locals[q].ret.ok \/ Ran(q, "update_status")) => locals[q].git_ok
           /\ ~locals[q].git_ok => locals[q].ret = ErrRet

\* C27: when PullRequest::merge returns after its clone has run, with Ok or
\* with an error, no directory it created is left on disk.
C27_TempDirRemoved ==
    \A q \in Reqs :
        (MergeReturned(q) /\ Ran(q, "clone")) => ~\E d \in disk : d.creator = q

\* C28: two merges under way at the same time use different temporary
\* directories.
C28_DisjointTempDirs ==
    \A q \in Reqs : \A o \in Reqs \ {q} :
        (pc[q] \in GitSteps /\ pc[o] \in GitSteps) => locals[q].temp_dir # locals[o].temp_dir

\* C29: a request to update_pull_request_status without a valid user is
\* answered 401, one of a user who does not own the repository of the pull
\* request is answered 403, and in both cases the handler has written no pull
\* request row and run no git command.
C29_OnlyOwnerChanges ==
    \A q \in Reqs :
        pc[q] = "done" =>
           /\ locals[q].user = None => (resp[q].status = 401 /\ trace[q] = <<>>)
           /\ ( /\ locals[q].user # None
                /\ find_by_name(locals[q].repo_name) # None
                /\ OwnerOf(db.pull_requests[locals[q].pr_id].repository_id) # locals[q].user[1] )
              => (resp[q].status = 403 /\ trace[q] = <<>>)

\* The rows of the repositories table kept in the directory of row i.
RecordsOf(i) ==
    { j \in 1..Len(db.repositories) :
        RepoPath(db.repositories[j].name) = RepoPath(db.repositories[i].name) }

\* C30: after any sequence of repository creations every directory
\* repositories/<name>.git belongs to one record, and find_by_name has one row
\* to return for a name.
C30_OneRecordPerDirectory ==
    (\A q \in Reqs : pc[q] \in {"idle", "done"}) =>
    \A i \in 1..Len(db.repositories) :
        /\ RecordsOf(i) = {i}
        /\ Cardinality({ j \in 1..Len(db.repositories) :
                           db.repositories[j].name = db.repositories[i].name }) = 1

====
